---- MODULE Spec2Model ----
(***************************************************************************)
(* Model of the persistence layer of the sticky-notes application.         *)
(*                                                                         *)
(*   main process      src/src/main/storage/index.js                       *)
(*       readNotesData, writeNotesData over notes.json, notes.backup.json  *)
(*   renderer process  src/src/renderer/services/storage.js  StorageService*)
(*                     src/src/renderer/services/notes.js    NotesService  *)
(*                                                                         *)
(* SpecFS  : the main-process file store, one fs call per step, with       *)
(*           failing fs calls and process crashes.                         *)
(* SpecSvc : the renderer services on top of the store: initialize,        *)
(*           create/update/saveManually/delete, the debounce timer, the    *)
(*           periodic auto-save interval and the saves in flight.          *)
(* SpecSnap   : createBackup and cleanupOldBackups beside writeNotesData,  *)
(*              under a clock.                                             *)
(* SpecNotes  : NotesService under a clock, with legacy records and update *)
(*              objects carrying any key.                                  *)
(* SpecLookup : create, update and delete beside the calls that name a     *)
(*              note that is not there.                                    *)
(* SpecSearch : searchNotes and SearchService.performSearch.               *)
(* SpecFaults : load, awaited saves and StorageService.createBackup under  *)
(*              failing backends.                                          *)
(* SpecCoord  : updates, the debounce timer and the auto-save interval     *)
(*              with startAutoSave, stopAutoSave, clearPendingData and the *)
(*              interval callback that finds nothing pending.              *)
(* SpecLive   : runs without end of updates that keep the debounce timer   *)
(*              armed, under weak fairness of the interval callback and of *)
(*              the answers to the writes.                                 *)
(* SpecMigrate: initialize over legacy records, at any time.               *)
(* SpecDurable: the file store from the state a first completed write      *)
(*              leaves.                                                    *)
(* SpecSessions: NotesService over several runs of the application, in a   *)
(*              browser window.                                            *)
(* SpecBrowser: the renderer services where window.electronAPI is missing. *)
(***************************************************************************)
EXTENDS Integers, Sequences, FiniteSets, TLC

(***************************************************************************)
(* Bounds                                                                  *)
(***************************************************************************)
\* largest number of notes held in memory at once
MaxNotes == 2
\* largest value nextNoteId may reach
MaxNextId == 3
\* largest number of StorageService save / debouncedSave calls in one run
MaxCalls == 2
\* largest number of saveData invocations awaiting the Primary at once
MaxInflight == 2
\* largest number of writeNotesData calls in one run of the file store
MaxWrites == 4
\* largest number of successful createBackup calls in one run
MaxSnapshots == 7
\* latest time the clock reaches where time passes between the calls
MaxClock == 3
\* longest search term, in characters
MaxTermLen == 2
\* startAutoSave calls in a run, the one of StickyNotesApp.init included
MaxStarts == 2

(***************************************************************************)
(* Configuration: src/src/main/storage/config.js                           *)
(***************************************************************************)
\* STORAGE_CONFIG.maxBackups
maxBackups == 5

(***************************************************************************)
(* Data model.  A note is {id, title, content}; field values are small     *)
(* integers: title n in 1..9 is the generated label "便签 n", 10.. are     *)
(* user-typed titles; content 0 is the empty string, 20.. user text.       *)
(* createdAt and updatedAt of the notes in memory are kept beside them, in  *)
(* stamps; a time is a small integer, 0 standing for a missing field.      *)
(* lastModified is not part of this model.                                 *)
(***************************************************************************)
UserTitles == {10}
UserContents == {20}

Note(i, t, c) == [id |-> i, title |-> t, content |-> c]

MkDoc(ns, nid) == [notes |-> ns, nextId |-> nid]

EmptyDoc == MkDoc(<<>>, 1)

\* nextId strictly exceeds every id present in notes
WellFormed(doc) == \A i \in 1..Len(doc.notes) : doc.notes[i].id < doc.nextId

IdsOf(ns) == {ns[i].id : i \in 1..Len(ns)}

(***************************************************************************)
(* JSON text.  A text is a sequence of tokens                              *)
(*     << n, id1, title1, content1, ..., idn, titlen, contentn, nextId >>  *)
(* in the key order of the object literal {notes, nextId}.  A torn file is *)
(* a strict prefix of such a text; no strict prefix parses.                *)
(***************************************************************************)
RECURSIVE NotesTokens(_)
NotesTokens(ns) ==
  IF ns = <<>> THEN <<>>
  ELSE <<Head(ns).id, Head(ns).title, Head(ns).content>> \o NotesTokens(Tail(ns))

JSONstringify(doc) == <<Len(doc.notes)>> \o NotesTokens(doc.notes) \o <<doc.nextId>>

\* JSON.parse throws unless the text is complete
ParseOk(t) == Len(t) >= 1 /\ Len(t) = 3 * t[1] + 2

JSONparse(t) ==
  MkDoc([i \in 1..t[1] |-> Note(t[3 * i - 1], t[3 * i], t[3 * i + 1])], t[Len(t)])

\* the strict prefixes an interrupted write can leave behind
Tear(t) == {SubSeq(t, 1, k) : k \in 0..(Len(t) - 1)}

(***************************************************************************)
(* Files                                                                   *)
(***************************************************************************)
Absent == [exists |-> FALSE, text |-> <<>>]

FileOf(t) == [exists |-> TRUE, text |-> t]

Readable(f) == f.exists /\ ParseOk(f.text)

(***************************************************************************)
(* State                                                                   *)
(***************************************************************************)
VARIABLES
  \* ---- the file system under STORAGE_CONFIG.dataDir
  dataDir,        \* the directory ~/.sticky-notes exists
  dataFile,       \* notes.json
  backupFile,     \* notes.backup.json
  \* ---- one writeNotesData call of the main process
  wpc,            \* its position: the fs call it is about to make
  wdata,          \* its argument
  wresult,        \* what the last call returned: "none", "success", "failure"
  \* ---- the last readNotesData call
  rresult,
  \* ---- history of the file store
  written,        \* every document ever passed to writeNotesData
  okRun,          \* documents of the latest consecutive successful calls (last two)
  nwrites,        \* number of writeNotesData calls so far
  \* ---- renderer: StorageService
  isElectronAvailable,  \* window.electronAPI is there (set once, in the constructor)
  localStorage,   \* the localStorage entry 'stickyNotes'
  saveTimeout,    \* handle of the debounce timer last set (0: null)
  timers,         \* setTimeout callbacks still armed, each with the data it closes over
  autoSaveInterval, \* this.autoSaveInterval: handle of the interval (0: null)
  pendingData,    \* data for the auto-save interval (NoData: null)
  inflight,       \* saveData invocations awaiting electronAPI.storage.write
  \* ---- renderer: NotesService
  pc,             \* "boot", "healing" (initialize awaits saveAllNotes), "ready"
  notes,          \* this.notes
  nextNoteId,     \* this.nextNoteId
  shown,          \* the message last shown through notificationService.show
  stamps,         \* stamps[i]: createdAt and updatedAt of notes[i]
  storedStamps,   \* createdAt and updatedAt of the records persisted before the run
  recycle,        \* call numbers are reused (runs without end); never changes
  unsaved,        \* an updateNote was made and no saveData was entered since
  deleted,        \* the deleteNote calls of this process that found their note:
                  \* the id, and the number of the save the call awaits
  ret,            \* what the NotesService call that returned last has returned
  searchService,  \* SearchService: currentSearchTerm, filteredNotes
  searched,       \* the last search: its term, the collection, the array returned
  \* ---- history of the renderer
  ncalls,         \* number of saveData / debouncedSave calls so far
  boot,           \* what initialize found and did
  lastWrite,      \* the document last handed to a backend write (issued: the
                  \* one of the electronAPI.storage.write call made last)
  execSeq,        \* the call whose write executed last
  burst,          \* the current run of updateNote calls under one debounce window
  created,        \* ids returned by createNewNote, in order
  lastSave,       \* backend calls of the saveData invocation that completed last
                  \* (allOk: every invocation so far reached both backends)
  \* ---- time and the timestamped snapshots of the main process
  clock,          \* what new Date() returns now
  snapshots,      \* the files notes.backup.<timestamp>.json, each with its mtime
  backupMtime,    \* mtime of notes.backup.json (0: from before the run)
  snapLog,        \* createBackup calls: how many succeeded, what the last returned
  \* ---- renderer: the timers and calls of StorageService beside the saves
  intervals,      \* handles of the setInterval timers that are running
  nstarts,        \* number of startAutoSave calls so far (the next handle)
  lastTick,       \* what the auto-save interval callback that ran last did
  backupCall      \* what the last StorageService.createBackup call did

fsVars == <<dataDir, dataFile, backupFile, wpc, wdata, wresult, rresult,
            written, okRun, nwrites>>

svcVars == <<isElectronAvailable, localStorage, saveTimeout, timers,
             autoSaveInterval, pendingData, inflight, pc, notes, nextNoteId,
             shown, ncalls, boot, lastWrite, execSeq, burst, created,
             lastSave, stamps, storedStamps, recycle, deleted, unsaved, ret, searchService,
             searched>>

snapVars == <<clock, snapshots, backupMtime, snapLog>>

coordVars == <<intervals, nstarts, lastTick, backupCall>>

vars == <<dataDir, dataFile, backupFile, wpc, wdata, wresult, rresult,
          written, okRun, nwrites,
          isElectronAvailable, localStorage, saveTimeout, timers,
          autoSaveInterval, pendingData, inflight, pc, notes, nextNoteId,
          shown, ncalls, boot, lastWrite, execSeq, burst, created,
          lastSave, stamps, storedStamps, recycle, deleted, unsaved, ret, searchService,
          searched,
          clock, snapshots, backupMtime, snapLog,
          intervals, nstarts, lastTick, backupCall>>

(***************************************************************************)
(* Main process: src/src/main/storage/index.js                             *)
(***************************************************************************)
\* documents handed to writeNotesData in SpecFS
FSDocs ==
  { MkDoc(<<>>, 2),
    MkDoc(<<Note(1, 1, 0)>>, 2),
    MkDoc(<<Note(1, 10, 20), Note(2, 2, 0)>>, 3) }

NoRead == [called |-> FALSE, threw |-> FALSE, val |-> EmptyDoc,
           readDataOk |-> FALSE, readBackupOk |-> FALSE]

\* fs.access(dataDir), and fs.mkdir(dataDir, {recursive}) when it rejects
ensureDataDir(dir, mkdirOk) ==
  [dir |-> dir \/ mkdirOk, threw |-> ~dir /\ ~mkdirOk]

\* fs.readFile + JSON.parse of one file: a value or a thrown error
readAndParse(f, readOk) ==
  IF f.exists /\ readOk /\ ParseOk(f.text)
  THEN [threw |-> FALSE, val |-> JSONparse(f.text)]
  ELSE [threw |-> TRUE, val |-> EmptyDoc]

\* readNotesData with the backup fallback left out
readNotesData_NoBackup(dir, data, backup, mkdirOk, readDataOk, readBackupOk) ==
  LET e == ensureDataDir(dir, mkdirOk)
      p == IF e.threw THEN [threw |-> TRUE, val |-> EmptyDoc]
           ELSE readAndParse(data, readDataOk)
  IN  IF ~p.threw THEN p ELSE [threw |-> FALSE, val |-> EmptyDoc]

\* readNotesData: try the data file, catch -> try the backup, catch -> empty
readNotesData(dir, data, backup, mkdirOk, readDataOk, readBackupOk) ==
  LET e == ensureDataDir(dir, mkdirOk)
      p == IF e.threw THEN [threw |-> TRUE, val |-> EmptyDoc]
           ELSE readAndParse(data, readDataOk)
      b == readAndParse(backup, readBackupOk)
  IN  IF ~p.threw THEN p
      ELSE IF ~b.threw THEN b
      ELSE [threw |-> FALSE, val |-> EmptyDoc]

\* fs.copyFile(dataPath, backupPath); a rejected copy is swallowed by the
\* inner try/catch of writeNotesData
copyFile(data, backup, copyOk) == IF copyOk THEN data ELSE backup

\* fs.writeFile(dataPath, JSON.stringify(data, null, 2)): "ok", or rejected
\* before the file was opened ("EACCES"), or rejected after the file was
\* truncated and partly written ("ENOSPC")
WriteOutcomes == {"ok", "EACCES", "ENOSPC"}

writeFile(data, doc, outcome) ==
  CASE outcome = "ok"     -> {FileOf(JSONstringify(doc))}
    [] outcome = "EACCES" -> {data}
    [] outcome = "ENOSPC" -> {FileOf(t) : t \in Tear(JSONstringify(doc))}

\* the last two documents of a run of successful calls
Push2(run, d) == IF Len(run) < 2 THEN Append(run, d) ELSE <<run[2], d>>

\* ipcMain.handle('storage:read'): readNotesData()
ReadCall ==
  /\ \E mkdirOk \in BOOLEAN, readDataOk \in BOOLEAN, readBackupOk \in BOOLEAN :
       LET r == readNotesData(dataDir, dataFile, backupFile,
                              mkdirOk, readDataOk, readBackupOk)
       IN  /\ rresult' = [called |-> TRUE, threw |-> r.threw, val |-> r.val,
                          readDataOk |-> readDataOk, readBackupOk |-> readBackupOk]
           /\ dataDir' = ensureDataDir(dataDir, mkdirOk).dir
  /\ UNCHANGED <<dataFile, backupFile, wpc, wdata, wresult, written, okRun, nwrites>>
  /\ UNCHANGED svcVars
  /\ UNCHANGED snapVars
  /\ UNCHANGED coordVars

\* ipcMain.handle('storage:write', data): writeNotesData(data) is entered
WriteCall(d) ==
  /\ wpc = "idle"
  /\ nwrites < MaxWrites
  /\ wpc' = "ensureDataDir"
  /\ wdata' = d
  /\ wresult' = "none"
  /\ written' = written \cup {d}
  /\ nwrites' = nwrites + 1
  /\ UNCHANGED <<dataDir, dataFile, backupFile, rresult, okRun>>
  /\ UNCHANGED svcVars
  /\ UNCHANGED snapVars
  /\ UNCHANGED coordVars

\* await ensureDataDir(); a throw goes to the outer catch: {success: false}
WriteEnsureDataDir ==
  /\ wpc = "ensureDataDir"
  /\ \E mkdirOk \in BOOLEAN :
       LET e == ensureDataDir(dataDir, mkdirOk)
       IN  /\ dataDir' = e.dir
           /\ wpc' = IF e.threw THEN "idle" ELSE "access"
           /\ wresult' = IF e.threw THEN "failure" ELSE wresult
           /\ okRun' = IF e.threw THEN <<>> ELSE okRun
  /\ UNCHANGED <<dataFile, backupFile, wdata, rresult, written, nwrites>>
  /\ UNCHANGED svcVars
  /\ UNCHANGED snapVars
  /\ UNCHANGED coordVars

\* await fs.access(dataPath): a rejection skips the backup
WriteAccess ==
  /\ wpc = "access"
  /\ wpc' = IF dataFile.exists THEN "copyFile" ELSE "writeFile"
  /\ UNCHANGED <<dataDir, dataFile, backupFile, wdata, wresult, rresult,
                 written, okRun, nwrites>>
  /\ UNCHANGED svcVars
  /\ UNCHANGED snapVars
  /\ UNCHANGED coordVars

\* await fs.copyFile(dataPath, backupPath)
WriteCopyFile ==
  /\ wpc = "copyFile"
  /\ \E copyOk \in BOOLEAN : backupFile' = copyFile(dataFile, backupFile, copyOk)
  /\ wpc' = "writeFile"
  /\ rresult' = NoRead
  /\ UNCHANGED <<dataDir, dataFile, wdata, wresult, written, okRun, nwrites>>
  /\ UNCHANGED svcVars
  /\ UNCHANGED snapVars
  /\ UNCHANGED coordVars

\* await fs.writeFile(...); return {success: true}, or the outer catch
WriteWriteFile ==
  /\ wpc = "writeFile"
  /\ \E outcome \in WriteOutcomes :
       /\ dataFile' \in writeFile(dataFile, wdata, outcome)
       /\ wresult' = IF outcome = "ok" THEN "success" ELSE "failure"
       /\ okRun' = IF outcome = "ok" THEN Push2(okRun, wdata) ELSE <<>>
  /\ wpc' = "idle"
  /\ rresult' = NoRead
  /\ UNCHANGED <<dataDir, backupFile, wdata, written, nwrites>>
  /\ UNCHANGED svcVars
  /\ UNCHANGED snapVars
  /\ UNCHANGED coordVars

\* the main process dies inside writeNotesData; the fs call that was running
\* (a copy, a write) may have been left half done; the files stay on disk
Crash ==
  /\ wpc # "idle"
  /\ wpc' = "idle"
  /\ wresult' = "none"
  /\ okRun' = <<>>
  /\ rresult' = NoRead
  /\ backupFile' \in
       IF wpc = "copyFile"
       THEN {backupFile} \cup {FileOf(t) : t \in Tear(dataFile.text)}
       ELSE {backupFile}
  /\ dataFile' \in
       IF wpc = "writeFile"
       THEN {dataFile} \cup {FileOf(t) : t \in Tear(JSONstringify(wdata))}
       ELSE {dataFile}
  /\ UNCHANGED <<dataDir, wdata, written, nwrites>>
  /\ UNCHANGED svcVars
  /\ UNCHANGED snapVars
  /\ UNCHANGED coordVars

(***************************************************************************)
(* Main process: createBackup and cleanupOldBackups                        *)
(***************************************************************************)
\* A directory entry seen by readdir.  kind stands for the file name:
\* "snapshot" is notes.backup.<timestamp>.json, "rotating" is
\* notes.backup.json; name is the timestamp in the name (0 for the rotating
\* backup).
DirEntry(kind, name, mtime) == [kind |-> kind, name |-> name, mtime |-> mtime]

\* file.startsWith('notes.backup.') && file.endsWith('.json'): true of the
\* timestamped snapshots and of 'notes.backup.json' ('notes.backup.' + 'json',
\* ending in '.json'), false of 'notes.json'
MatchesBackupFilter(kind) == kind \in {"snapshot", "rotating"}

\* readdir(dataDir)
ReadDir(data, backup, bmtime, snaps) ==
  {DirEntry("snapshot", f.name, f.mtime) : f \in snaps}
    \cup (IF backup.exists THEN {DirEntry("rotating", 0, bmtime)} ELSE {})
    \cup (IF data.exists THEN {DirEntry("data", 0, 0)} ELSE {})

\* sortedFiles.sort((a, b) => b.time - a.time).slice(maxBackups): the entries
\* that have at least maxBackups newer ones
FilesToDelete(files) ==
  {f \in files : Cardinality({g \in files : g.mtime > f.mtime}) >= maxBackups}

\* cleanupOldBackups: filter the directory, and when more than maxBackups
\* entries pass, unlink all but the newest maxBackups; a rejected readdir or
\* stat is logged and nothing is unlinked
cleanupOldBackups(data, backup, bmtime, snaps, cleanupOk) ==
  LET backupFiles == {f \in ReadDir(data, backup, bmtime, snaps) :
                        MatchesBackupFilter(f.kind)}
      gone        == IF cleanupOk /\ Cardinality(backupFiles) > maxBackups
                     THEN FilesToDelete(backupFiles)
                     ELSE {}
  IN  [snaps  |-> {f \in snaps : DirEntry("snapshot", f.name, f.mtime) \notin gone},
       backup |-> IF \E g \in gone : g.kind = "rotating" THEN Absent ELSE backup]

\* createBackup: ensureDataDir, copyFile(dataPath, notes.backup.<now>.json),
\* cleanupOldBackups, {success: true}; any rejection before the cleanup gives
\* {success: false}
createBackup(dir, data, backup, bmtime, snaps, now, mkdirOk, copyOk, cleanupOk) ==
  LET e      == ensureDataDir(dir, mkdirOk)
      copied == ~e.threw /\ data.exists /\ copyOk
      snaps1 == {f \in snaps : f.name # now} \cup {[name |-> now, mtime |-> now]}
      c      == cleanupOldBackups(data, backup, bmtime, snaps1, cleanupOk)
  IN  IF copied
      THEN [success |-> TRUE, dir |-> e.dir, snaps |-> c.snaps, backup |-> c.backup]
      ELSE [success |-> FALSE, dir |-> e.dir, snaps |-> snaps, backup |-> backup]

\* ipcMain.handle('storage:backup'): createBackup() run to completion
CreateBackupCall ==
  /\ wpc = "idle"
  /\ snapLog.ok < MaxSnapshots
  /\ \E mkdirOk \in BOOLEAN, copyOk \in BOOLEAN, cleanupOk \in BOOLEAN :
       LET r == createBackup(dataDir, dataFile, backupFile, backupMtime, snapshots,
                             clock, mkdirOk, copyOk, cleanupOk)
       IN  /\ dataDir' = r.dir
           /\ snapshots' = r.snaps
           /\ backupFile' = r.backup
           /\ clock' = IF r.success THEN clock + 1 ELSE clock
           /\ snapLog' = [ok |-> IF r.success THEN snapLog.ok + 1 ELSE snapLog.ok,
                          last |-> IF r.success THEN "success" ELSE "failure",
                          cleanupFailed |-> snapLog.cleanupFailed \/
                                            (r.success /\ ~cleanupOk)]
  /\ UNCHANGED <<dataFile, backupMtime, wpc, wdata, wresult, rresult, written,
                 okRun, nwrites>>
  /\ UNCHANGED svcVars
  /\ UNCHANGED coordVars

\* ipcMain.handle('storage:write', data): writeNotesData(data) run to
\* completion with every fs call succeeding; the copy gives notes.backup.json
\* the current time as its mtime
WriteDone(d) ==
  /\ wpc = "idle"
  /\ nwrites < MaxWrites
  /\ dataDir' = ensureDataDir(dataDir, TRUE).dir
  /\ backupFile' = IF dataFile.exists THEN copyFile(dataFile, backupFile, TRUE)
                   ELSE backupFile
  /\ backupMtime' = IF dataFile.exists THEN clock ELSE backupMtime
  /\ dataFile' \in writeFile(dataFile, d, "ok")
  /\ wresult' = "success"
  /\ written' = written \cup {d}
  /\ nwrites' = nwrites + 1
  /\ clock' = clock + 1
  /\ UNCHANGED <<wpc, wdata, rresult, okRun, snapshots, snapLog>>
  /\ UNCHANGED svcVars
  /\ UNCHANGED coordVars

(***************************************************************************)
(* Renderer: src/src/renderer/services/storage.js  (StorageService)        *)
(***************************************************************************)
\* The object {notes: this.notes, nextId: this.nextNoteId, lastModified}
\* built by updateNote and saveAllNotes.  notes is the array this.notes
\* itself, not a copy, so a data object kept in a timer closure or in
\* pendingData shows the notes as they are when it is finally serialized;
\* nextId is the number copied when the object was built.  seq is the number
\* of the saveData / debouncedSave call the object was passed to.
Data(nid, k) == [nextId |-> nid, seq |-> k]

NoData == Data(0, 0)

\* what JSON.stringify / the structured clone of ipcRenderer.invoke sees
DocOf(data, ns) == MkDoc(ns, data.nextId)

NoWrite == [backend |-> "none", doc |-> EmptyDoc, issued |-> EmptyDoc]

NoSave == [done |-> FALSE, usable |-> FALSE, primary |-> "none",
           secondary |-> FALSE, threw |-> FALSE, setItemOk |-> FALSE,
           allOk |-> TRUE]

NoBurst == [active |-> FALSE, done |-> FALSE, n |-> 0, writes |-> 0,
            debWrites |-> 0, final |-> <<>>, doc |-> EmptyDoc]

\* loadFromLocalStorage: getItem + JSON.parse inside try/catch, else the default
loadFromLocalStorage(ls, getItemOk) ==
  IF getItemOk /\ ls.exists /\ ParseOk(ls.text)
  THEN [threw |-> FALSE, val |-> JSONparse(ls.text)]
  ELSE [threw |-> FALSE, val |-> EmptyDoc]

\* loadData that calls electronAPI.storage.read() whatever the flag says
loadData_IgnoresFlag(electron, dir, data, backup, ls, ipcOk, getItemOk) ==
  IF ipcOk
  THEN readNotesData(dir, data, backup, TRUE, TRUE, TRUE)
  ELSE loadFromLocalStorage(ls, getItemOk)

\* loadData with the catch around the electronAPI read left out
loadData_NoCatch(electron, dir, data, backup, ls, ipcOk, getItemOk) ==
  IF electron
  THEN IF ipcOk
       THEN readNotesData(dir, data, backup, TRUE, TRUE, TRUE)
       ELSE [threw |-> TRUE, val |-> EmptyDoc]
  ELSE loadFromLocalStorage(ls, getItemOk)

\* loadData: electronAPI.storage.read() when Electron is available (its result
\* always carries a notes array here, so the `data && data.notes` test passes);
\* a rejected IPC call goes to the catch, localStorage otherwise
loadData(electron, dir, data, backup, ls, ipcOk, getItemOk) ==
  IF electron
  THEN IF ipcOk
       THEN readNotesData(dir, data, backup, TRUE, TRUE, TRUE)
       ELSE loadFromLocalStorage(ls, getItemOk)
  ELSE loadFromLocalStorage(ls, getItemOk)

\* saveToLocalStorage: setItem(JSON.stringify(data)) inside try/catch
saveToLocalStorage(ls, doc, setItemOk) ==
  IF setItemOk THEN FileOf(JSONstringify(doc)) ELSE ls

\* saveToLocalStorage without the try/catch around setItem
saveToLocalStorageThrew_NoCatch(setItemOk) == ~setItemOk

\* saveToLocalStorage lines 93-98: does it throw?  setItem and JSON.stringify
\* run inside try/catch, which logs
saveToLocalStorageThrew(setItemOk) == FALSE

\* saveData lines 68-86: does the invocation reject?  The try block leaves
\* through a rejected electronAPI.storage.write or a throwing
\* saveToLocalStorage; the catch block calls saveToLocalStorage again, and
\* what that throws nothing catches
saveDataThrew(electron, outcome, setItemOk) ==
  LET tryThrew == (electron /\ outcome = "throw") \/
                  saveToLocalStorageThrew(setItemOk)
  IN  tryThrew /\ saveToLocalStorageThrew(setItemOk)

\* StorageService.createBackup lines 104-113: does it reject?  The await of
\* electronAPI.storage.backup() is inside try/catch, which logs
createBackupThrew(electron, ipcOk) == FALSE

\* what electronAPI.storage.write can come back with
PrimaryOutcomes == {"ok", "failure", "throw"}

\* writeNotesData run to completion for the renderer's IPC call: "ok" is
\* {success: true}, "failure" is {success: false} from a rejected writeFile
\* (after the backup copy), "throw" is a rejected IPC call that touched no file
writeNotesData(dir, data, backup, doc, outcome) ==
  IF outcome = "throw"
  THEN [dir |-> dir, data |-> data, backup |-> backup]
  ELSE [dir |-> ensureDataDir(dir, TRUE).dir,
        data |-> IF outcome = "ok" THEN FileOf(JSONstringify(doc)) ELSE data,
        backup |-> IF data.exists THEN copyFile(data, backup, TRUE) ELSE backup]

\* saveData after `await electronAPI.storage.write(data)`: does it go on to
\* saveToLocalStorage?  Variant whose catch block does not mirror.
mirrorsAfterWrite_NotOnThrow(outcome) == outcome # "throw"

\* saveData lines 72-85: the try block mirrors after the await whatever the
\* result object says, the catch block mirrors after a rejection
mirrorsAfterWrite(outcome) == TRUE

\* debouncedSave with the clearTimeout left out
armTimer_NoClear(ts, handle, data) == ts \cup {data}

\* debouncedSave that leaves an armed timer in place and drops the new call
armTimer_KeepsArmed(ts, handle, data) == IF ts = {} THEN {data} ELSE ts

\* debouncedSave: clearTimeout(this.saveTimeout), then setTimeout(...)
armTimer(ts, handle, data) == {t \in ts : t.seq # handle} \cup {data}

\* startAutoSave that does not clear the interval it replaces
startAutoSave_NoClear(handle, ivs, n) ==
  [handle |-> n + 1, ivs |-> ivs \cup {n + 1}]

\* startAutoSave: clearInterval(this.autoSaveInterval) when it is set, then
\* this.autoSaveInterval = setInterval(...); n handles were given out before
startAutoSave(handle, ivs, n) ==
  [handle |-> n + 1, ivs |-> (ivs \ {handle}) \cup {n + 1}]

\* stopAutoSave: clearInterval and null the field when it is set
stopAutoSave(handle, ivs) ==
  IF handle # 0
  THEN [handle |-> 0, ivs |-> ivs \ {handle}]
  ELSE [handle |-> handle, ivs |-> ivs]

\* the interval callback that never saves
tickSaves_Never(pending) == FALSE

\* the interval callback with the test of this.pendingData left out
tickSaves_Always(pending) == TRUE

\* the interval callback: if (this.pendingData) this.saveData(this.pendingData)
tickSaves(pending) == pending # NoData

\* clearPendingData
clearPendingData(pending) == NoData

\* updateNote without its setPendingData call
setPendingData_Skipped(pending, data) == pending

\* setPendingData
setPendingData(pending, data) == data

NoTick == [ran |-> FALSE, wrote |-> FALSE, seq |-> 0]

\* the message shown after `await this.saveAllNotes()` returns
AfterSave(origin, before) ==
  CASE origin = "create" -> "created"
    [] origin = "delete" -> "deleted"
    [] origin = "heal"   -> "recovered"
    [] OTHER             -> before

\* callers that return false when the save they awaited had failed
Returned_False(origin, before) ==
  CASE origin = "create" -> [op |-> "create", val |-> "false"]
    [] origin = "manual" -> [op |-> "manual", val |-> "false"]
    [] origin = "delete" -> [op |-> "delete", val |-> "false"]
    [] OTHER             -> before

\* what the caller of saveAllNotes returns once the save is over: the note
\* for createNewNote, true for saveNoteManually and deleteNote
Returned(origin, before) ==
  CASE origin = "create" -> [op |-> "create", val |-> "note"]
    [] origin = "manual" -> [op |-> "manual", val |-> "true"]
    [] origin = "delete" -> [op |-> "delete", val |-> "true"]
    [] OTHER             -> before

\* the number the next saveData / debouncedSave call gets; calls beyond
\* MaxCalls are made only in the runs that reuse the numbers
CanCall == recycle \/ ncalls < MaxCalls

NextSeq == IF recycle THEN (ncalls % MaxCalls) + 1 ELSE ncalls + 1

\* counters of the burst bookkeeping stop at MaxCalls + 1 (reached only where
\* call numbers are reused)
Capped(n) == IF n > MaxCalls + 1 THEN MaxCalls + 1 ELSE n

\* bookkeeping of a saveData invocation for the burst of updateNote calls
BurstOnSave(origin, doc) ==
  IF origin = "debounce"
  THEN [burst EXCEPT !.active = FALSE, !.done = burst.active \/ burst.done,
                     !.writes = Capped(@ + 1), !.debWrites = Capped(@ + 1),
                     !.doc = doc]
  ELSE IF origin = "tick"
  THEN [burst EXCEPT !.writes = IF burst.active THEN Capped(@ + 1) ELSE @]
  ELSE NoBurst

\* saveData(data) is entered with this.notes = ns.  With Electron the IPC call
\* is issued (its argument is cloned now) and the invocation is suspended;
\* without it the data goes to localStorage at once and the caller goes on.
saveData(data, ns, origin) ==
  LET doc == DocOf(data, ns)
  IN  /\ execSeq' = data.seq
      /\ unsaved' = FALSE
      /\ burst' = BurstOnSave(origin, doc)
      /\ IF isElectronAvailable
         THEN /\ Cardinality(inflight) < MaxInflight
              /\ inflight' = inflight \cup
                   {[data |-> data, sent |-> doc, origin |-> origin]}
              /\ lastWrite' = [backend |-> "primary", doc |-> doc, issued |-> doc]
              /\ UNCHANGED <<localStorage, lastSave, ret>>
              /\ shown' = IF origin = "manual" THEN "saved" ELSE shown
         ELSE /\ \E setItemOk \in BOOLEAN :
                   /\ localStorage' = saveToLocalStorage(localStorage, doc, setItemOk)
                   /\ lastSave' = [done |-> TRUE, usable |-> FALSE,
                                   primary |-> "none", secondary |-> TRUE,
                                   threw |-> saveDataThrew(FALSE, "none", setItemOk),
                                   setItemOk |-> setItemOk,
                                   allOk |-> FALSE]
              /\ lastWrite' = [backend |-> "secondary", doc |-> doc,
                                issued |-> lastWrite.issued]
              /\ shown' = AfterSave(origin, IF origin = "manual" THEN "saved" ELSE shown)
              /\ ret' = Returned(origin, ret)
              /\ UNCHANGED inflight

(***************************************************************************)
(* Renderer: src/src/renderer/services/notes.js  (NotesService)            *)
(***************************************************************************)
\* a field that the updates object does not carry
NoField == -1

\* the updates objects passed to updateNote / saveNoteManually
Updates ==
  {[title |-> t, content |-> NoField] : t \in UserTitles} \cup
  {[title |-> NoField, content |-> c] : c \in UserContents}

\* updates objects no caller in the renderer builds but updateNote and
\* saveNoteManually accept: Object.assign copies whatever keys they carry
ForeignUpdates ==
  { [title |-> NoField, content |-> NoField, createdAt |-> MaxClock + 1],
    [title |-> NoField, content |-> NoField, id |-> MaxNextId] }

Stamp(c, u) == [createdAt |-> c, updatedAt |-> u]

\* the migration giving a missing updatedAt the current time
Migrate_UpdatedNow(st, now) ==
  Stamp(IF st.createdAt = 0 THEN now ELSE st.createdAt,
        IF st.updatedAt = 0 THEN now ELSE st.updatedAt)

\* initialize lines 23-30: if (!note.createdAt) note.createdAt = now;
\* if (!note.updatedAt) note.updatedAt = note.createdAt
Migrate(st, now) ==
  LET c == IF st.createdAt = 0 THEN now ELSE st.createdAt
  IN  Stamp(c, IF st.updatedAt = 0 THEN c ELSE st.updatedAt)

\* Object.assign(note, updates); note.updatedAt = new Date().toISOString()
AssignStamp(st, upd, now) ==
  Stamp(IF "createdAt" \in DOMAIN upd THEN upd.createdAt ELSE st.createdAt, now)

\* Object.assign(note, updates)
Assign(note, upd) ==
  [id |-> IF "id" \in DOMAIN upd THEN upd.id ELSE note.id,
   title |-> IF upd.title = NoField THEN note.title ELSE upd.title,
   content |-> IF upd.content = NoField THEN note.content ELSE upd.content]

\* this.notes.findIndex(n => n.id === noteId); 0 stands for -1
FindIndex(ns, id) ==
  IF \E i \in 1..Len(ns) : ns[i].id = id
  THEN CHOOSE i \in 1..Len(ns) :
         ns[i].id = id /\ \A j \in 1..(i - 1) : ns[j].id # id
  ELSE 0

\* this.notes.splice(noteIndex, 1)
Splice(ns, k) == [i \in 1..(Len(ns) - 1) |-> IF i < k THEN ns[i] ELSE ns[i + 1]]

\* createNewNote with the increment of nextNoteId left out
allocateId_NoIncrement(nid) == [id |-> nid, next |-> nid]

\* id: this.nextNoteId++
allocateId(nid) == [id |-> nid, next |-> nid + 1]

\* the persisted state initialize may find
BootDocP == MkDoc(<<Note(1, 1, 0)>>, 2)
BootDocS == MkDoc(<<Note(1, 10, 20)>>, 2)
BootDocZ == MkDoc(<<>>, 2)

\* a fresh install; notes.json torn with an intact backup; an emptied
\* notes.json beside a localStorage mirror; everything torn
BootStates ==
  { [data |-> Absent, backup |-> Absent, ls |-> Absent],
    [data |-> FileOf(<<1, 1>>), backup |-> FileOf(JSONstringify(BootDocP)),
     ls |-> FileOf(<<1>>)],
    [data |-> FileOf(JSONstringify(BootDocZ)), backup |-> Absent,
     ls |-> FileOf(JSONstringify(BootDocS))],
    [data |-> FileOf(<<1, 1>>), backup |-> FileOf(<<>>), ls |-> FileOf(<<1>>)] }

\* initialize with the test for a non-empty localStorage document inverted
recoverFromLocal_Inverted(ns0, local) == Len(ns0) = 0 /\ Len(local.notes) = 0

\* initialize lines 33-35: this.notes.length === 0 and
\* localData.notes.length > 0
recoverFromLocal(ns0, local) == Len(ns0) = 0 /\ Len(local.notes) > 0

\* StickyNotesApp.init: await notesService.initialize(), then startAutoSave().
\* initialize: loadData, adopt notes / nextId, and when no note was loaded
\* look into localStorage again, adopt a non-empty document found there,
\* write it back through saveAllNotes and show the recovery message.
\* initialize lines 17-19 and 33-37: this.notes and this.nextNoteId after the
\* load (the defaults of the constructor when loadData threw)
initialize(electron, dir, data, backup, ls, ipcOk, getItemOk) ==
  LET ld      == loadData(electron, dir, data, backup, ls, ipcOk, getItemOk)
      ns0     == ld.val.notes
      nid0    == IF ld.val.nextId = 0 THEN 1 ELSE ld.val.nextId
      local   == loadFromLocalStorage(ls, getItemOk).val
      recover == ~ld.threw /\ recoverFromLocal(ns0, local)
  IN  [recovered |-> recover,
       notes     |-> IF ld.threw THEN <<>> ELSE IF recover THEN local.notes ELSE ns0,
       nextId    |-> IF ld.threw THEN 1 ELSE IF recover THEN local.nextId ELSE nid0]

Initialize ==
  /\ pc = "boot"
  /\ \E ipcOk \in BOOLEAN, getItemOk \in BOOLEAN :
       LET ld      == loadData(isElectronAvailable, dataDir, dataFile, backupFile,
                               localStorage, ipcOk, getItemOk)
           loaded  == initialize(isElectronAvailable, dataDir, dataFile, backupFile,
                                 localStorage, ipcOk, getItemOk)
           recover == loaded.recovered
           ns1     == loaded.notes
           nid1    == loaded.nextId
       IN  /\ notes' = ns1
           /\ stamps' = [i \in 1..Len(ns1) |-> Migrate(storedStamps, clock)]
           /\ nextNoteId' = nid1
           /\ dataDir' = IF isElectronAvailable /\ ipcOk
                         THEN ensureDataDir(dataDir, TRUE).dir
                         ELSE dataDir
           /\ boot' = [boot EXCEPT !.ipcOk = ipcOk, !.getItemOk = getItemOk,
                                   !.threw = ld.threw, !.val = ld.val,
                                   !.recovered = recover,
                                   !.healSent = IF recover THEN MkDoc(ns1, nid1)
                                                ELSE EmptyDoc,
                                   !.calls = IF recover THEN 1 ELSE 0]
           /\ IF recover
              THEN /\ ncalls' = NextSeq
                   /\ saveData(Data(nid1, NextSeq), ns1, "heal")
                   /\ pc' = IF isElectronAvailable THEN "healing" ELSE "ready"
              ELSE /\ pc' = "ready"
                   /\ shown' = IF ld.threw THEN "loadFailed" ELSE shown
                   /\ UNCHANGED <<ncalls, inflight, localStorage, lastWrite,
                                  execSeq, burst, lastSave, ret, unsaved>>
  /\ LET st == startAutoSave(autoSaveInterval, intervals, nstarts)
     IN  IF pc' = "ready"
         THEN /\ autoSaveInterval' = st.handle
              /\ intervals' = st.ivs
              /\ nstarts' = nstarts + 1
         ELSE UNCHANGED <<autoSaveInterval, intervals, nstarts>>
  /\ UNCHANGED <<searchService, searched, storedStamps, recycle, deleted, isElectronAvailable, saveTimeout, timers, pendingData, created>>
  /\ UNCHANGED <<dataFile, backupFile, wpc, wdata, wresult, rresult, written,
                 okRun, nwrites>>
  /\ UNCHANGED snapVars
  /\ UNCHANGED <<lastTick, backupCall>>

\* createNewNote
CreateNewNote ==
  /\ pc = "ready"
  /\ Len(notes) < MaxNotes
  /\ nextNoteId < MaxNextId
  /\ CanCall
  /\ LET a  == allocateId(nextNoteId)
         ns == Append(notes, Note(a.id, Len(notes) + 1, 0))
     IN  /\ notes' = ns
         /\ stamps' = Append(stamps, Stamp(clock, clock))
         /\ nextNoteId' = a.next
         /\ created' = Append(created, a.id)
         /\ ncalls' = NextSeq
         /\ saveData(Data(a.next, NextSeq), ns, "create")
  /\ UNCHANGED <<searchService, searched, storedStamps, recycle, deleted, isElectronAvailable, saveTimeout, timers, autoSaveInterval,
                 pendingData, pc, boot>>
  /\ UNCHANGED fsVars
  /\ UNCHANGED snapVars
  /\ UNCHANGED coordVars

\* updateNote(noteId, updates) for a note that is found (otherwise it returns
\* false and changes nothing): merge, setPendingData(data), debouncedSave(data)
UpdateNote(id, upd) ==
  /\ pc = "ready"
  /\ FindIndex(notes, id) # 0
  /\ CanCall
  /\ LET k    == FindIndex(notes, id)
         ns   == [notes EXCEPT ![k] = Assign(notes[k], upd)]
         data == Data(nextNoteId, NextSeq)
     IN  /\ notes' = ns
         /\ stamps' = [stamps EXCEPT ![k] = AssignStamp(stamps[k], upd, clock)]
         /\ ret' = [op |-> "update", val |-> "true"]
         /\ unsaved' = TRUE
         /\ pendingData' = setPendingData(pendingData, data)
         /\ timers' = armTimer(timers, saveTimeout, data)
         /\ saveTimeout' = data.seq
         /\ ncalls' = NextSeq
         /\ burst' = IF timers = {}
                     THEN [active |-> TRUE, done |-> FALSE, n |-> 1, writes |-> 0,
                           debWrites |-> 0, final |-> ns, doc |-> EmptyDoc]
                     ELSE IF burst.active
                     THEN [burst EXCEPT !.n = Capped(@ + 1), !.final = ns]
                     ELSE burst
  /\ UNCHANGED <<searchService, searched, storedStamps, recycle, deleted, isElectronAvailable, localStorage, autoSaveInterval, inflight,
                 pc, nextNoteId, shown, boot, lastWrite, execSeq,
                 created, lastSave>>
  /\ UNCHANGED fsVars
  /\ UNCHANGED snapVars
  /\ UNCHANGED coordVars

\* saveNoteManually(noteId, updates) for a note that is found: the message
\* first, then the merge and saveAllNotes
SaveNoteManually(id, upd) ==
  /\ pc = "ready"
  /\ FindIndex(notes, id) # 0
  /\ CanCall
  /\ LET k  == FindIndex(notes, id)
         ns == [notes EXCEPT ![k] = Assign(notes[k], upd)]
     IN  /\ notes' = ns
         /\ stamps' = [stamps EXCEPT ![k] = AssignStamp(stamps[k], upd, clock)]
         /\ ncalls' = NextSeq
         /\ saveData(Data(nextNoteId, NextSeq), ns, "manual")
  /\ UNCHANGED <<searchService, searched, storedStamps, recycle, deleted, isElectronAvailable, saveTimeout, timers, autoSaveInterval,
                 pendingData, pc, nextNoteId, boot, created>>
  /\ UNCHANGED fsVars
  /\ UNCHANGED snapVars
  /\ UNCHANGED coordVars

\* deleteNote(noteId) for a note that is found: splice, saveAllNotes
DeleteNote(id) ==
  /\ pc = "ready"
  /\ FindIndex(notes, id) # 0
  /\ CanCall
  /\ LET ns == Splice(notes, FindIndex(notes, id))
     IN  /\ notes' = ns
         /\ stamps' = Splice(stamps, FindIndex(notes, id))
         /\ ncalls' = NextSeq
         /\ deleted' = deleted \cup {[id |-> id, seq |-> NextSeq]}
         /\ saveData(Data(nextNoteId, NextSeq), ns, "delete")
  /\ UNCHANGED <<searchService, searched, storedStamps, recycle, isElectronAvailable, saveTimeout, timers, autoSaveInterval,
                 pendingData, pc, nextNoteId, boot, created>>
  /\ UNCHANGED fsVars
  /\ UNCHANGED snapVars
  /\ UNCHANGED coordVars

\* saveNoteManually that shows its message before looking the note up
shownOnNotFound_MessageFirst(op, before) ==
  IF op = "manual" THEN "saved" ELSE before

\* updateNote / saveNoteManually / deleteNote when the note is not found:
\* `return false` comes before any notificationService.show
shownOnNotFound(op, before) == before

\* updateNote(noteId, updates) when getNoteById finds nothing: return false
UpdateNoteNotFound(id, upd) ==
  /\ pc = "ready"
  /\ FindIndex(notes, id) = 0
  /\ ret' = [op |-> "update", val |-> "false"]
  /\ shown' = shownOnNotFound("update", shown)
  /\ UNCHANGED <<searchService, searched, storedStamps, recycle, deleted, unsaved, isElectronAvailable, localStorage, saveTimeout, timers,
                 autoSaveInterval, pendingData, inflight, pc, notes, nextNoteId,
                 ncalls, boot, lastWrite, execSeq, burst, created, lastSave,
                 stamps>>
  /\ UNCHANGED fsVars
  /\ UNCHANGED snapVars
  /\ UNCHANGED coordVars

\* saveNoteManually(noteId, updates) when getNoteById finds nothing
SaveNoteManuallyNotFound(id, upd) ==
  /\ pc = "ready"
  /\ FindIndex(notes, id) = 0
  /\ ret' = [op |-> "manual", val |-> "false"]
  /\ shown' = shownOnNotFound("manual", shown)
  /\ UNCHANGED <<searchService, searched, storedStamps, recycle, deleted, unsaved, isElectronAvailable, localStorage, saveTimeout, timers,
                 autoSaveInterval, pendingData, inflight, pc, notes, nextNoteId,
                 ncalls, boot, lastWrite, execSeq, burst, created, lastSave,
                 stamps>>
  /\ UNCHANGED fsVars
  /\ UNCHANGED snapVars
  /\ UNCHANGED coordVars

\* deleteNote(noteId) when findIndex returns -1
DeleteNoteNotFound(id) ==
  /\ pc = "ready"
  /\ FindIndex(notes, id) = 0
  /\ ret' = [op |-> "delete", val |-> "false"]
  /\ shown' = shownOnNotFound("delete", shown)
  /\ UNCHANGED <<searchService, searched, storedStamps, recycle, deleted, unsaved, isElectronAvailable, localStorage, saveTimeout, timers,
                 autoSaveInterval, pendingData, inflight, pc, notes, nextNoteId,
                 ncalls, boot, lastWrite, execSeq, burst, created, lastSave,
                 stamps>>
  /\ UNCHANGED fsVars
  /\ UNCHANGED snapVars
  /\ UNCHANGED coordVars

\* time passes: the next new Date() is later
TimePasses ==
  /\ clock < MaxClock
  /\ clock' = clock + 1
  /\ UNCHANGED <<snapshots, backupMtime, snapLog>>
  /\ UNCHANGED fsVars
  /\ UNCHANGED svcVars
  /\ UNCHANGED coordVars

(***************************************************************************)
(* Search: NotesService.searchNotes and SearchService.performSearch.       *)
(* Here a title, a content and a search term are texts: sequences of       *)
(* one-character strings.                                                  *)
(***************************************************************************)
toLowerCaseChar(c) ==
  CASE c = "A" -> "a"
    [] c = "B" -> "b"
    [] OTHER   -> c

\* String.prototype.toLowerCase that leaves the text as it is
toLowerCase_Identity(t) == t

\* String.prototype.toLowerCase
toLowerCase(t) == [i \in 1..Len(t) |-> toLowerCaseChar(t[i])]

RECURSIVE trimStart(_)
trimStart(t) ==
  IF t # <<>> /\ Head(t) = " " THEN trimStart(Tail(t)) ELSE t

RECURSIVE trimEnd(_)
trimEnd(t) ==
  IF t # <<>> /\ t[Len(t)] = " " THEN trimEnd(SubSeq(t, 1, Len(t) - 1)) ELSE t

\* String.prototype.trim
trim(t) == trimEnd(trimStart(t))

\* String.prototype.includes
includes(t, part) ==
  \E k \in 0..(Len(t) - Len(part)) : SubSeq(t, k + 1, k + Len(part)) = part

\* the callback of notes.filter in searchNotes and performSearch
\* (`note.title ? note.title.toLowerCase() : ''` is '' for the empty title)
noteMatches(note, term) ==
  LET title   == toLowerCase(note.title)
      content == toLowerCase(note.content)
  IN  includes(title, term) \/ includes(content, term)

\* Array.prototype.filter with that callback
RECURSIVE filter(_, _)
filter(ns, term) ==
  IF ns = <<>> THEN <<>>
  ELSE IF noteMatches(Head(ns), term)
       THEN <<Head(ns)>> \o filter(Tail(ns), term)
       ELSE filter(Tail(ns), term)

\* NotesService.searchNotes
searchNotes(ns, searchTerm) ==
  IF searchTerm = <<>> \/ trim(searchTerm) = <<>>
  THEN ns
  ELSE filter(ns, trim(toLowerCase(searchTerm)))

\* SearchService.performSearch: the fields it sets and what it returns
performSearch(ns, searchTerm) ==
  LET cur == trim(toLowerCase(searchTerm))
  IN  IF cur = <<>>
      THEN [currentSearchTerm |-> cur, filteredNotes |-> <<>>, result |-> ns]
      ELSE [currentSearchTerm |-> cur, filteredNotes |-> filter(ns, cur),
            result |-> filter(ns, cur)]

\* notesService.searchNotes(term)
SearchNotes(term) ==
  /\ searched' = [by |-> "searchNotes", term |-> term, over |-> notes,
                  result |-> searchNotes(notes, term)]
  /\ UNCHANGED <<searchService, storedStamps, recycle, deleted, unsaved, localStorage, isElectronAvailable,
                 saveTimeout, timers, autoSaveInterval, pendingData, inflight, pc,
                 notes, nextNoteId, shown, ncalls, boot, lastWrite, execSeq, burst,
                 created, lastSave, stamps, ret>>
  /\ UNCHANGED fsVars
  /\ UNCHANGED snapVars
  /\ UNCHANGED coordVars

\* searchService.performSearch(notesService.getAllNotes(), term)
PerformSearch(term) ==
  LET r == performSearch(notes, term)
  IN  /\ searchService' = [currentSearchTerm |-> r.currentSearchTerm,
                           filteredNotes |-> r.filteredNotes]
      /\ searched' = [by |-> "performSearch", term |-> term, over |-> notes,
                      result |-> r.result]
      /\ UNCHANGED <<storedStamps, recycle, deleted, unsaved, localStorage, isElectronAvailable,
                     saveTimeout, timers, autoSaveInterval, pendingData, inflight,
                     pc, notes, nextNoteId, shown, ncalls, boot, lastWrite,
                     execSeq, burst, created, lastSave, stamps, ret>>
      /\ UNCHANGED fsVars
      /\ UNCHANGED snapVars
      /\ UNCHANGED coordVars

\* the setTimeout callback of debouncedSave: this.saveData(data)
DebounceFire(t) ==
  /\ t \in timers
  /\ timers' = timers \ {t}
  /\ saveData(t, notes, "debounce")
  /\ UNCHANGED <<stamps, searchService, searched, storedStamps, recycle, deleted, isElectronAvailable, saveTimeout, autoSaveInterval, pendingData,
                 pc, notes, nextNoteId, ncalls, boot, created>>
  /\ UNCHANGED fsVars
  /\ UNCHANGED snapVars
  /\ UNCHANGED coordVars

\* the callback of a running setInterval timer of startAutoSave, with
\* pendingData set: this.saveData(this.pendingData)
AutoSaveTick ==
  /\ intervals # {}
  /\ tickSaves(pendingData)
  /\ CanCall
  /\ ncalls' = NextSeq
  /\ saveData(Data(pendingData.nextId, NextSeq), notes, "tick")
  /\ lastTick' = [ran |-> TRUE, wrote |-> TRUE, seq |-> NextSeq]
  /\ UNCHANGED <<stamps, searchService, searched, storedStamps, recycle, deleted, isElectronAvailable, saveTimeout, timers, autoSaveInterval,
                 pendingData, pc, notes, nextNoteId, boot, created>>
  /\ UNCHANGED fsVars
  /\ UNCHANGED snapVars
  /\ UNCHANGED <<intervals, nstarts, backupCall>>

\* the same callback with pendingData null: it does nothing
AutoSaveTickIdle ==
  /\ intervals # {}
  /\ ~tickSaves(pendingData)
  /\ lastTick' = [ran |-> TRUE, wrote |-> FALSE, seq |-> 0]
  /\ UNCHANGED <<intervals, nstarts, backupCall>>
  /\ UNCHANGED svcVars
  /\ UNCHANGED fsVars
  /\ UNCHANGED snapVars

\* StorageService.createBackup, the callback of the interval setupAutoBackup
\* sets: with Electron, await electronAPI.storage.backup() inside try/catch.
\* The call is rejected, or the main process runs createBackup and answers
\* {success: true} or {success: false, error}.
CreateBackup ==
  /\ pc = "ready"
  /\ \E ipcOk \in BOOLEAN, mkdirOk \in BOOLEAN, copyOk \in BOOLEAN :
       LET r   == createBackup(dataDir, dataFile, backupFile, backupMtime,
                               snapshots, clock, mkdirOk, copyOk, TRUE)
           ran == isElectronAvailable /\ ipcOk
       IN  /\ dataDir' = IF ran THEN r.dir ELSE dataDir
           /\ snapshots' = IF ran THEN r.snaps ELSE snapshots
           /\ backupFile' = IF ran THEN r.backup ELSE backupFile
           /\ backupCall' =
                [done   |-> TRUE,
                 threw  |-> createBackupThrew(isElectronAvailable, ipcOk),
                 result |-> IF ~isElectronAvailable THEN "skipped"
                            ELSE IF ~ipcOk THEN "rejected"
                            ELSE IF r.success THEN "success" ELSE "failure"]
  /\ UNCHANGED <<intervals, nstarts, lastTick>>
  /\ UNCHANGED <<clock, backupMtime, snapLog>>
  /\ UNCHANGED <<dataFile, wpc, wdata, wresult, rresult, written, okRun, nwrites>>
  /\ UNCHANGED svcVars

\* storageService.startAutoSave()
StartAutoSave ==
  /\ pc = "ready"
  /\ nstarts < MaxStarts
  /\ LET st == startAutoSave(autoSaveInterval, intervals, nstarts)
     IN  /\ autoSaveInterval' = st.handle
         /\ intervals' = st.ivs
  /\ nstarts' = nstarts + 1
  /\ UNCHANGED <<isElectronAvailable, localStorage, saveTimeout, timers,
                 pendingData, inflight, pc, notes, nextNoteId, shown, ncalls,
                 boot, lastWrite, execSeq, burst, created, lastSave, stamps,
                 storedStamps, recycle, deleted, unsaved, ret, searchService, searched>>
  /\ UNCHANGED <<lastTick, backupCall>>
  /\ UNCHANGED fsVars
  /\ UNCHANGED snapVars

\* storageService.stopAutoSave()
StopAutoSave ==
  /\ pc = "ready"
  /\ LET st == stopAutoSave(autoSaveInterval, intervals)
     IN  /\ autoSaveInterval' = st.handle
         /\ intervals' = st.ivs
  /\ UNCHANGED <<isElectronAvailable, localStorage, saveTimeout, timers,
                 pendingData, inflight, pc, notes, nextNoteId, shown, ncalls,
                 boot, lastWrite, execSeq, burst, created, lastSave, stamps,
                 storedStamps, recycle, deleted, unsaved, ret, searchService, searched>>
  /\ UNCHANGED <<nstarts, lastTick, backupCall>>
  /\ UNCHANGED fsVars
  /\ UNCHANGED snapVars

\* storageService.clearPendingData()
ClearPendingData ==
  /\ pc = "ready"
  /\ pendingData' = clearPendingData(pendingData)
  /\ UNCHANGED <<isElectronAvailable, localStorage, saveTimeout, timers,
                 autoSaveInterval, inflight, pc, notes, nextNoteId, shown, ncalls,
                 boot, lastWrite, execSeq, burst, created, lastSave, stamps,
                 storedStamps, recycle, deleted, unsaved, ret, searchService, searched>>
  /\ UNCHANGED coordVars
  /\ UNCHANGED fsVars
  /\ UNCHANGED snapVars

\* electronAPI.storage.write(data) settles for a suspended saveData: the main
\* process has run writeNotesData on the clone it was sent; saveData goes on to
\* saveToLocalStorage(data) and its caller goes on after `await`
SaveFinish(f) ==
  /\ f \in inflight
  /\ \E outcome \in PrimaryOutcomes, setItemOk \in BOOLEAN :
       LET w      == writeNotesData(dataDir, dataFile, backupFile, f.sent, outcome)
           mirror == mirrorsAfterWrite(outcome)
           live   == DocOf(f.data, notes)
       IN  /\ dataDir' = w.dir
           /\ dataFile' = w.data
           /\ backupFile' = w.backup
           /\ localStorage' = IF mirror
                              THEN saveToLocalStorage(localStorage, live, setItemOk)
                              ELSE localStorage
           /\ lastWrite' = IF mirror
                           THEN [backend |-> "secondary", doc |-> live,
                                 issued |-> lastWrite.issued]
                           ELSE lastWrite
           /\ lastSave' = [done |-> TRUE, usable |-> TRUE, primary |-> outcome,
                           secondary |-> mirror,
                           threw |-> saveDataThrew(TRUE, outcome, setItemOk),
                           setItemOk |-> mirror /\ setItemOk,
                           allOk |-> lastSave.allOk /\ outcome = "ok" /\ mirror
                                     /\ setItemOk]
           /\ boot' = IF f.origin = "heal"
                      THEN [boot EXCEPT !.healOutcome = outcome]
                      ELSE boot
  /\ inflight' = inflight \ {f}
  /\ shown' = AfterSave(f.origin, shown)
  /\ ret' = Returned(f.origin, ret)
  /\ stamps' = stamps
  /\ pc' = IF f.origin = "heal" THEN "ready" ELSE pc
  /\ LET st == startAutoSave(autoSaveInterval, intervals, nstarts)
     IN  IF f.origin = "heal"
         THEN /\ autoSaveInterval' = st.handle
              /\ intervals' = st.ivs
              /\ nstarts' = nstarts + 1
         ELSE UNCHANGED <<autoSaveInterval, intervals, nstarts>>
  /\ UNCHANGED <<searchService, searched, storedStamps, recycle, deleted, unsaved, isElectronAvailable, saveTimeout, timers, pendingData, notes,
                 nextNoteId, ncalls, execSeq, burst, created>>
  /\ UNCHANGED <<wpc, wdata, wresult, rresult, written, okRun, nwrites>>
  /\ UNCHANGED snapVars
  /\ UNCHANGED <<lastTick, backupCall>>

NoBoot == [ipcOk |-> FALSE, getItemOk |-> FALSE, threw |-> FALSE,
           val |-> EmptyDoc, recovered |-> FALSE, calls |-> 0,
           healSent |-> EmptyDoc, healOutcome |-> "none",
           data |-> Absent, backup |-> Absent, ls |-> Absent]

NoRet == [op |-> "none", val |-> "none"]

NoBackupCall == [done |-> FALSE, threw |-> FALSE, result |-> "none"]

NoSearch == [by |-> "none", term |-> <<>>, over |-> <<>>, result |-> <<>>]

\* SearchService.constructor
SearchConstructed ==
  /\ searchService = [currentSearchTerm |-> <<>>, filteredNotes |-> <<>>]
  /\ searched = NoSearch

\* the renderer before StickyNotesApp.init (constructors of both services)
SvcConstructed ==
  /\ saveTimeout = 0
  /\ timers = {}
  /\ autoSaveInterval = 0
  /\ intervals = {}
  /\ nstarts = 0
  /\ lastTick = NoTick
  /\ backupCall = NoBackupCall
  /\ pendingData = NoData
  /\ inflight = {}
  /\ pc = "boot"
  /\ notes = <<>>
  /\ nextNoteId = 1
  /\ shown = "none"
  /\ ncalls = 0
  /\ lastWrite = NoWrite
  /\ execSeq = 0
  /\ burst = NoBurst
  /\ created = <<>>
  /\ lastSave = NoSave
  /\ stamps = <<>>
  /\ ret = NoRet
  /\ unsaved = FALSE
  /\ deleted = {}
  /\ SearchConstructed

FsIdle ==
  /\ wpc = "idle"
  /\ wdata = EmptyDoc
  /\ wresult = "none"
  /\ rresult = NoRead
  /\ written = {}
  /\ okRun = <<>>
  /\ nwrites = 0

NoSnapLog == [ok |-> 0, last |-> "none", cleanupFailed |-> FALSE]

\* no snapshot was taken yet
SnapIdle ==
  /\ clock = 1
  /\ snapshots = {}
  /\ backupMtime = 0
  /\ snapLog = NoSnapLog

InitSvc ==
  /\ SvcConstructed
  /\ FsIdle
  /\ SnapIdle
  /\ storedStamps = Stamp(1, 1)
  /\ recycle = FALSE
  /\ isElectronAvailable \in BOOLEAN
  /\ \E b \in BootStates :
       /\ dataFile = b.data
       /\ backupFile = b.backup
       /\ dataDir = (b.data.exists \/ b.backup.exists)
       /\ localStorage = b.ls
  /\ boot = [NoBoot EXCEPT !.data = dataFile, !.backup = backupFile,
                           !.ls = localStorage]

NextSvc ==
  \/ Initialize
  \/ CreateNewNote
  \/ \E id \in 1..MaxNextId, upd \in Updates : UpdateNote(id, upd)
  \/ \E id \in 1..MaxNextId, upd \in Updates : SaveNoteManually(id, upd)
  \/ \E id \in 1..MaxNextId : DeleteNote(id)
  \/ \E t \in timers : DebounceFire(t)
  \/ AutoSaveTick
  \/ \E f \in inflight : SaveFinish(f)

SpecSvc == InitSvc /\ [][NextSvc]_vars

\* runs without end: updateNote calls on the title of note 1 keep coming
\* faster than the debounce interval, so that the debounce timer is re-armed
\* by each of them and never fires; the auto-save interval keeps ticking and
\* every write the main process was sent is answered.  Call numbers are
\* reused.
InitLive ==
  /\ SvcConstructed
  /\ FsIdle
  /\ SnapIdle
  /\ storedStamps = Stamp(1, 1) /\ recycle = TRUE
  /\ isElectronAvailable \in BOOLEAN
  /\ \E b \in BootStates :
       /\ Readable(b.backup) \/ Readable(b.ls)
       /\ dataFile = b.data
       /\ backupFile = b.backup
       /\ dataDir = (b.data.exists \/ b.backup.exists)
       /\ localStorage = b.ls
  /\ boot = [NoBoot EXCEPT !.data = dataFile, !.backup = backupFile,
                           !.ls = localStorage]

NextLive ==
  \/ Initialize
  \/ \E upd \in {u \in Updates : u.content = NoField} : UpdateNote(1, upd)
  \/ AutoSaveTick
  \/ \E f \in inflight : SaveFinish(f)

\* setInterval keeps calling its callback while the process runs, IPC calls
\* are answered, init goes on
FairLive ==
  /\ WF_vars(Initialize)
  /\ WF_vars(AutoSaveTick)
  /\ WF_vars(\E f \in inflight : SaveFinish(f))

SpecLive == InitLive /\ [][NextLive]_vars /\ FairLive

\* createdAt / updatedAt as records written by earlier versions carry them:
\* both, either one, or none (time 1 is before the run)
LegacyStamps == {Stamp(c, u) : c \in {0, 1}, u \in {0, 1}}

\* the persisted state for the runs of NotesService under time: notes.json
\* torn with an intact backup, or emptied beside a localStorage mirror
NotesBootStates == {b \in BootStates : Readable(b.backup) \/ Readable(b.ls)}

InitNotes ==
  /\ SvcConstructed
  /\ FsIdle
  /\ clock = 2
  /\ snapshots = {}
  /\ backupMtime = 0
  /\ snapLog = NoSnapLog
  /\ storedStamps \in LegacyStamps
  /\ recycle = FALSE
  /\ isElectronAvailable \in BOOLEAN
  /\ \E b \in NotesBootStates :
       /\ dataFile = b.data
       /\ backupFile = b.backup
       /\ dataDir = TRUE
       /\ localStorage = b.ls
  /\ boot = [NoBoot EXCEPT !.data = dataFile, !.backup = backupFile,
                           !.ls = localStorage]

\* NotesService called with any updates object, time passing between the
\* calls
NextNotes ==
  \/ Initialize
  \/ CreateNewNote
  \/ \E id \in 1..MaxNextId, upd \in Updates \cup ForeignUpdates : UpdateNote(id, upd)
  \/ \E id \in 1..MaxNextId, upd \in Updates \cup ForeignUpdates :
       SaveNoteManually(id, upd)
  \/ \E id \in 1..MaxNextId : DeleteNote(id)
  \/ \E t \in timers : DebounceFire(t)
  \/ AutoSaveTick
  \/ \E f \in inflight : SaveFinish(f)
  \/ TimePasses

SpecNotes == InitNotes /\ [][NextNotes]_vars

\* the start-up over legacy records, at any time, and the updates after it
NextMigrate ==
  \/ Initialize
  \/ \E id \in 1..MaxNextId, upd \in Updates : UpdateNote(id, upd)
  \/ \E f \in inflight : SaveFinish(f)
  \/ TimePasses

SpecMigrate == InitNotes /\ [][NextMigrate]_vars

\* titles and contents of the notes searched, and the characters of a term
SearchTitles == {<<>>, <<"a", "B">>, <<"b", "a">>}
SearchContents == {<<>>, <<"a", " ", "B">>}
TermChars == {"B", " "}

RECURSIVE Texts(_, _)
Texts(chars, n) ==
  IF n = 0 THEN {<<>>}
  ELSE LET shorter == Texts(chars, n - 1)
       IN  shorter \cup {Append(t, c) : t \in shorter, c \in chars}

SearchTerms == Texts(TermChars, MaxTermLen)

RECURSIVE Collections(_)
Collections(n) ==
  IF n = 0 THEN {<<>>}
  ELSE LET shorter == Collections(n - 1)
       IN  shorter \cup
           {Append(ns, Note(Len(ns) + 1, t, c)) :
              ns \in shorter, t \in SearchTitles, c \in SearchContents}

\* a loaded collection, searched over and over
InitSearch ==
  /\ FsIdle
  /\ SnapIdle
  /\ dataDir = FALSE /\ dataFile = Absent /\ backupFile = Absent
  /\ isElectronAvailable = FALSE
  /\ localStorage = Absent
  /\ boot = NoBoot
  /\ storedStamps = Stamp(1, 1)
  /\ recycle = FALSE
  /\ saveTimeout = 0 /\ timers = {} /\ autoSaveInterval = 1
  /\ intervals = {1} /\ nstarts = 1 /\ lastTick = NoTick
  /\ backupCall = NoBackupCall
  /\ pendingData = NoData /\ inflight = {}
  /\ pc = "ready"
  /\ notes \in Collections(MaxNotes)
  /\ stamps = [i \in 1..Len(notes) |-> Stamp(1, 1)]
  /\ nextNoteId = Len(notes) + 1
  /\ shown = "none" /\ ncalls = 0 /\ lastWrite = NoWrite /\ execSeq = 0
  /\ burst = NoBurst /\ created = <<>> /\ lastSave = NoSave /\ ret = NoRet
  /\ unsaved = FALSE
  /\ deleted = {}
  /\ SearchConstructed

NextSearch ==
  \/ \E term \in SearchTerms : SearchNotes(term)
  \/ \E term \in SearchTerms : PerformSearch(term)

SpecSearch == InitSearch /\ [][NextSearch]_vars

InitLookup ==
  /\ SvcConstructed
  /\ FsIdle
  /\ SnapIdle
  /\ storedStamps = Stamp(1, 1)
  /\ recycle = FALSE
  /\ isElectronAvailable \in BOOLEAN
  /\ \E b \in NotesBootStates :
       /\ dataFile = b.data
       /\ backupFile = b.backup
       /\ dataDir = TRUE
       /\ localStorage = b.ls
  /\ boot = [NoBoot EXCEPT !.data = dataFile, !.backup = backupFile,
                           !.ls = localStorage]

\* the application is closed (main.js 57-61: app.quit() once every window is
\* closed) and started again: `new StickyNotesApp()` (renderer.js 779) builds
\* the services anew, timers and pending data are gone with the old window,
\* the files and localStorage stay as they are
Restart ==
  /\ pc = "ready"
  /\ inflight = {}
  /\ saveTimeout' = 0
  /\ timers' = {}
  /\ autoSaveInterval' = 0
  /\ intervals' = {}
  /\ nstarts' = 0
  /\ lastTick' = NoTick
  /\ backupCall' = NoBackupCall
  /\ pendingData' = NoData
  /\ pc' = "boot"
  /\ notes' = <<>>
  /\ nextNoteId' = 1
  /\ shown' = "none"
  /\ ncalls' = 0
  /\ lastWrite' = NoWrite
  /\ execSeq' = 0
  /\ burst' = NoBurst
  /\ created' = <<>>
  /\ lastSave' = NoSave
  /\ stamps' = <<>>
  /\ ret' = NoRet
  /\ unsaved' = FALSE
  /\ deleted' = {}
  /\ searchService' = [currentSearchTerm |-> <<>>, filteredNotes |-> <<>>]
  /\ searched' = NoSearch
  /\ boot' = [NoBoot EXCEPT !.data = dataFile, !.backup = backupFile,
                            !.ls = localStorage]
  /\ UNCHANGED <<isElectronAvailable, localStorage, storedStamps, recycle,
                 inflight>>
  /\ UNCHANGED fsVars
  /\ UNCHANGED snapVars

\* the application over several sessions: notes are created, updated and
\* deleted, the debounce timer fires, and the application is closed and
\* started again on the files the session before left
NextSessions ==
  \/ Initialize
  \/ CreateNewNote
  \/ \E id \in 1..MaxNextId, upd \in Updates : UpdateNote(id, upd)
  \/ \E id \in 1..MaxNextId : DeleteNote(id)
  \/ \E t \in timers : DebounceFire(t)
  \/ Restart

\* the renderer where window.electronAPI is missing, beside files a desktop
\* run may have left: the load, every save, the timers, the backup callback
InitBrowser ==
  /\ InitSvc
  /\ ~isElectronAvailable

NextBrowser ==
  \/ Initialize
  \/ CreateNewNote
  \/ \E id \in 1..MaxNextId, upd \in Updates : UpdateNote(id, upd)
  \/ \E id \in 1..MaxNextId, upd \in Updates : SaveNoteManually(id, upd)
  \/ \E id \in 1..MaxNextId : DeleteNote(id)
  \/ \E t \in timers : DebounceFire(t)
  \/ AutoSaveTick
  \/ CreateBackup

SpecBrowser == InitBrowser /\ [][NextBrowser]_vars

\* the application in a browser window (no electronAPI), its notes in
\* localStorage
InitSessions ==
  /\ InitSvc
  /\ ~isElectronAvailable
  /\ Readable(localStorage)

SpecSessions == InitSessions /\ [][NextSessions]_vars

\* NotesService called with any id, in the collection or not
NextLookup ==
  \/ Initialize
  \/ CreateNewNote
  \/ \E id \in 1..MaxNextId, upd \in Updates : UpdateNote(id, upd)
  \/ \E id \in 1..MaxNextId : DeleteNote(id)
  \/ \E f \in inflight : SaveFinish(f)
  \/ \E id \in 1..MaxNextId, upd \in Updates : UpdateNoteNotFound(id, upd)
  \/ \E id \in 1..MaxNextId, upd \in Updates : SaveNoteManuallyNotFound(id, upd)
  \/ \E id \in 1..MaxNextId : DeleteNoteNotFound(id)

SpecLookup == InitLookup /\ [][NextLookup]_vars

\* the application with its backup interval: the load, the saves that
\* createNewNote, saveNoteManually and deleteNote await, and the backup call,
\* under every failure of the file store, the IPC channel and localStorage
NextFaults ==
  \/ Initialize
  \/ CreateNewNote
  \/ \E id \in 1..MaxNextId, upd \in Updates : SaveNoteManually(id, upd)
  \/ \E id \in 1..MaxNextId : DeleteNote(id)
  \/ \E f \in inflight : SaveFinish(f)
  \/ CreateBackup

\* the persisted state for the runs under failures: nothing that can be
\* read back, on a fresh install or with every store torn
FaultBootStates == {b \in BootStates : ~Readable(b.backup) /\ ~Readable(b.ls)}

InitFaults ==
  /\ SvcConstructed
  /\ FsIdle
  /\ SnapIdle
  /\ storedStamps = Stamp(1, 1)
  /\ recycle = FALSE
  /\ isElectronAvailable \in BOOLEAN
  /\ \E b \in FaultBootStates :
       /\ dataFile = b.data
       /\ backupFile = b.backup
       /\ dataDir = (b.data.exists \/ b.backup.exists)
       /\ localStorage = b.ls
  /\ boot = [NoBoot EXCEPT !.data = dataFile, !.backup = backupFile,
                           !.ls = localStorage]

SpecFaults == InitFaults /\ [][NextFaults]_vars

\* StorageService with its timers driven through the whole interface: the
\* updates that arm the debounce timer and set the pending data, the calls the
\* application leaves to its embedder (startAutoSave again, stopAutoSave,
\* clearPendingData), and the interval callback in both of its branches
InitCoord ==
  /\ SvcConstructed
  /\ FsIdle
  /\ SnapIdle
  /\ storedStamps = Stamp(1, 1)
  /\ recycle = FALSE
  /\ isElectronAvailable \in BOOLEAN
  /\ \E b \in NotesBootStates :
       /\ dataFile = b.data
       /\ backupFile = b.backup
       /\ dataDir = (b.data.exists \/ b.backup.exists)
       /\ localStorage = b.ls
  /\ boot = [NoBoot EXCEPT !.data = dataFile, !.backup = backupFile,
                           !.ls = localStorage]

NextCoord ==
  \/ Initialize
  \/ \E id \in 1..MaxNextId, upd \in Updates : UpdateNote(id, upd)
  \/ \E t \in timers : DebounceFire(t)
  \/ AutoSaveTick
  \/ \E f \in inflight : SaveFinish(f)
  \/ AutoSaveTickIdle
  \/ StartAutoSave
  \/ StopAutoSave
  \/ ClearPendingData

SpecCoord == InitCoord /\ [][NextCoord]_vars

InitFS ==
  /\ dataDir = FALSE
  /\ dataFile = Absent
  /\ backupFile = Absent
  /\ wpc = "idle"
  /\ wdata = EmptyDoc
  /\ wresult = "none"
  /\ rresult = NoRead
  /\ written = {}
  /\ okRun = <<>>
  /\ nwrites = 0
  /\ SvcConstructed
  /\ isElectronAvailable = TRUE
  /\ localStorage = Absent
  /\ boot = NoBoot
  /\ SnapIdle
  /\ storedStamps = Stamp(1, 1)
  /\ recycle = FALSE

NextFS ==
  \/ ReadCall
  \/ \E d \in FSDocs : WriteCall(d)
  \/ WriteEnsureDataDir
  \/ WriteAccess
  \/ WriteCopyFile
  \/ WriteWriteFile
  \/ Crash

SpecFS == InitFS /\ [][NextFS]_vars

\* the file store from the state its first writeNotesData call leaves when it
\* returns {success: true}: notes.json holds the document, there is no backup
InitDurable ==
  /\ dataDir = TRUE
  /\ \E d \in FSDocs :
       /\ dataFile = FileOf(JSONstringify(d))
       /\ written = {d}
       /\ okRun = <<d>>
       /\ wdata = d
  /\ backupFile = Absent
  /\ wpc = "idle"
  /\ wresult = "success"
  /\ rresult = NoRead
  /\ nwrites = 1
  /\ SvcConstructed
  /\ isElectronAvailable = TRUE
  /\ localStorage = Absent
  /\ boot = NoBoot
  /\ SnapIdle
  /\ storedStamps = Stamp(1, 1)
  /\ recycle = FALSE

SpecDurable == InitDurable /\ [][NextFS]_vars

\* the file store with its snapshots: writes and createBackup calls, one
\* after the other, starting from an empty data directory
NextSnap ==
  \/ WriteDone(MkDoc(<<Note(1, 1, 0)>>, 2))
  \/ CreateBackupCall

SpecSnap == InitFS /\ [][NextSnap]_vars

(***************************************************************************)
(* Properties of the file store (SpecFS)                                   *)
(***************************************************************************)

\* C3: after two consecutive successful writeNotesData calls D1, D2 (each
\* returned {success: true}, none overlapping), notes.json holds the
\* serialization of D2 and notes.backup.json holds the serialization of D1.
C3_BackupLagsByOne ==
  (wpc = "idle" /\ Len(okRun) = 2)
    => /\ dataFile = FileOf(JSONstringify(okRun[2]))
       /\ backupFile = FileOf(JSONstringify(okRun[1]))

\* C4: in every reachable state, crashes inside writeNotesData included,
\* notes.backup.json, when it exists, is the complete serialization of a
\* document that was passed to writeNotesData.
C4_BackupNeverTorn ==
  backupFile.exists => \E d \in written : backupFile.text = JSONstringify(d)

\* C8: readNotesData never throws; it returns the parsed notes.json whenever
\* that file can be read and parsed, otherwise the parsed notes.backup.json
\* when that one can be read and parsed, otherwise {notes: [], nextId: 1}.
C8_ReadFallbackChain ==
  rresult.called =>
    LET primaryOk == Readable(dataFile) /\ rresult.readDataOk
        backupOk  == Readable(backupFile) /\ rresult.readBackupOk
    IN  /\ ~rresult.threw
        /\ primaryOk => rresult.val = JSONparse(dataFile.text)
        /\ (~primaryOk /\ backupOk) => rresult.val = JSONparse(backupFile.text)
        /\ (~primaryOk /\ ~backupOk) => rresult.val = EmptyDoc

\* C8 witness: notes.json is on disk but torn, the backup is intact and differs
\* from the empty document, and the read returned the backup's content.
C8_Witness ==
  /\ rresult.called
  /\ dataFile.exists /\ ~ParseOk(dataFile.text)
  /\ Readable(backupFile) /\ rresult.readBackupOk
  /\ rresult.val = JSONparse(backupFile.text)
  /\ rresult.val # EmptyDoc

(***************************************************************************)
(* Properties of the snapshots (SpecSnap)                                  *)
(***************************************************************************)

\* C11: once more than maxBackups createBackup calls have succeeded (and no
\* cleanup was cut short by a failing fs call), exactly maxBackups timestamped
\* snapshot files are in the data directory and they are the most recently
\* modified ones, with or without notes.backup.json beside them.
C11_SnapshotRetention ==
  (snapLog.ok > maxBackups /\ ~snapLog.cleanupFailed) =>
     /\ Cardinality(snapshots) = maxBackups
     /\ \A f \in snapshots : f.mtime >= clock - maxBackups

\* C24: a createBackup call leaves notes.json and notes.backup.json as they
\* were (its cleanup unlinks timestamped snapshot files only), and one that
\* returns a failure leaves the snapshot files as they were too.
C24_SnapshotTouchesSnapshotsOnly ==
  [][snapLog' # snapLog =>
       /\ dataFile' = dataFile
       /\ backupFile' = backupFile
       /\ snapLog'.last = "failure" => snapshots' = snapshots]_vars

(***************************************************************************)
(* Properties of the renderer services (SpecSvc)                           *)
(***************************************************************************)

\* C1: every document handed to a backend write (immediate save, debounce
\* timer firing, auto-save tick; Primary or localStorage) has nextId greater
\* than the id of every note in it.
C1_WrittenDocsWellFormed ==
  lastWrite.backend # "none" => WellFormed(lastWrite.doc)

\* C2: writes execute in the order of the saveData / debouncedSave calls that
\* passed their documents: no write for an earlier call executes after a write
\* for a later call.
C2_WritesInCallOrder == [][execSeq' >= execSeq]_vars

\* C5 (as claimed): a run of updateNote calls, each made while the debounce
\* timer of the previous one is still armed, ends with exactly one backend
\* write, and that write carries the final merged notes.
C5_OneWritePerBurst ==
  burst.done => (burst.writes = 1 /\ burst.doc.notes = burst.final)

\* C5 (amended): such a run ends with exactly one write started by the
\* debounce timer, and that write carries the final merged notes; auto-save
\* ticks that fall inside the run write as well.
C5_OneDebounceWritePerBurst ==
  burst.done => (burst.debWrites = 1 /\ burst.doc.notes = burst.final)

\* C5 witness: two updateNote calls on note 1 under one debounce window, one
\* setting the title and one the content, then the timer fired once and wrote
\* the note with both fields merged.
C5_Witness ==
  /\ burst.done
  /\ burst.n >= 2
  /\ burst.debWrites = 1
  /\ \E i \in 1..Len(burst.doc.notes) :
       burst.doc.notes[i].title \in UserTitles /\
       burst.doc.notes[i].content \in UserContents

\* the case of C6: Electron is available, the Primary read at start-up gave a
\* document without notes, and localStorage held a document with notes
C6_Case ==
  /\ isElectronAvailable
  /\ boot.ipcOk
  /\ Len(readNotesData(boot.data.exists \/ boot.backup.exists, boot.data,
                       boot.backup, TRUE, TRUE, TRUE).val.notes) = 0
  /\ boot.getItemOk
  /\ Readable(boot.ls)
  /\ Len(JSONparse(boot.ls.text).notes) > 0

\* initialize has returned and nothing else has run since
JustLoaded == pc = "ready" /\ ncalls = boot.calls

PrimaryReadNow ==
  readNotesData(dataDir, dataFile, backupFile, TRUE, TRUE, TRUE).val

\* what C6 promises in any case: the notes and nextId of localStorage are
\* adopted, that document is sent to the Primary write, the recovery message
\* is shown
C6_Adopted ==
  /\ notes = JSONparse(boot.ls.text).notes
  /\ nextNoteId = JSONparse(boot.ls.text).nextId
  /\ boot.recovered
  /\ boot.healSent = JSONparse(boot.ls.text)
  /\ boot.healOutcome # "none"
  /\ shown = "recovered"

C10_MirrorAlways ==
  /\ lastSave.done =>
       /\ lastSave.usable = isElectronAvailable
       /\ lastSave.secondary
       /\ lastSave.usable => lastSave.primary \in PrimaryOutcomes
       /\ ~lastSave.usable => lastSave.primary = "none"
  /\ ~isElectronAvailable =>
       /\ inflight = {}
       /\ dataFile = boot.data /\ backupFile = boot.backup
       /\ lastWrite.backend # "primary"

\* C10 witness: a save whose IPC write was rejected has completed and the
\* localStorage write was the last backend write.
C10_Witness ==
  /\ lastSave.done /\ lastSave.usable
  /\ lastSave.primary = "throw"
  /\ lastSave.secondary
  /\ lastWrite.backend = "secondary"

\* C19: at no time are two electronAPI.storage.write calls in flight,
\* whichever way they were started (createNewNote, deleteNote,
\* saveNoteManually, the debounce timer, the auto-save interval, the
\* write-back of initialize).
C19_NoOverlappingWrites == Cardinality(inflight) <= 1

\* C20: at no time are two writes started by the debounce timer in flight,
\* however long a write takes.
C20_OneDebounceWriteInFlight ==
  Cardinality({f \in inflight : f.origin = "debounce"}) <= 1

(***************************************************************************)
(* Properties of NotesService called with unknown ids (SpecLookup)         *)
(***************************************************************************)

\* C12: a call of updateNote, saveNoteManually or deleteNote that returns
\* false (its id is not in the collection) leaves the notes, their time
\* stamps and nextNoteId as they were, arms no debounce timer, sets no pending
\* data, starts no backend write (Primary or localStorage) and shows no
\* message.
C12_NotFoundChangesNothing ==
  [][(ret' # ret /\ ret'.val = "false") =>
       UNCHANGED <<notes, stamps, nextNoteId, saveTimeout, timers, pendingData,
                   inflight, ncalls, execSeq, lastWrite, localStorage, dataFile,
                   backupFile, shown>>]_vars

\* C12 witness: saveNoteManually was called with an id that is not in the
\* non-empty collection and returned false, with no "saved" message on
\* display and nothing in flight or armed.
C12_Witness ==
  /\ ret = [op |-> "manual", val |-> "false"]
  /\ Len(notes) > 0
  /\ shown # "saved"
  /\ timers = {} /\ inflight = {} /\ pendingData = NoData

(***************************************************************************)
(* Properties of the time stamps (SpecNotes)                               *)
(***************************************************************************)

\* C13: once initialize has returned (its migration of records lacking
\* createdAt, updatedAt or both included), and after any createNewNote,
\* updateNote, saveNoteManually and deleteNote calls, every note in the
\* collection has updatedAt >= createdAt.
C13_UpdatedNotBeforeCreated ==
  pc = "ready" =>
    \A i \in 1..Len(stamps) : stamps[i].updatedAt >= stamps[i].createdAt

\* C18: no createNewNote, updateNote, saveNoteManually or deleteNote call
\* changes the id or the createdAt of a note that is in the collection before
\* and after the call, whatever the updates object carries.
C18_CreatedAtAndIdFrozen ==
  [][(pc = "ready" /\ pc' = "ready") =>
       LET Same(i, j) == /\ notes'[j].id = notes[i].id
                         /\ stamps'[j].createdAt = stamps[i].createdAt
       IN  IF Len(notes') >= Len(notes)
           THEN \A i \in 1..Len(notes) : Same(i, i)
           ELSE \E k \in 1..Len(notes) :
                  \A j \in 1..Len(notes') : Same(IF j < k THEN j ELSE j + 1, j)]_vars

(***************************************************************************)
(* Properties of the search (SpecSearch)                                   *)
(***************************************************************************)
\* the two characters are the same letter, upper or lower case
SameLetter(c, d) ==
  \/ c = d
  \/ {c, d} = {"a", "A"}
  \/ {c, d} = {"b", "B"}

\* part occurs in t, case ignored
OccursIn(part, t) ==
  \E k \in 0..(Len(t) - Len(part)) :
     \A i \in 1..Len(part) : SameLetter(t[k + i], part[i])

\* the term without the blanks around it
Core(term) ==
  LET inked == {i \in 1..Len(term) : term[i] # " "}
  IN  IF inked = {} THEN <<>>
      ELSE SubSeq(term, CHOOSE i \in inked : \A j \in inked : i <= j,
                        CHOOSE i \in inked : \A j \in inked : i >= j)

\* positions of the notes whose title or content holds the term
Hits(ns, term) ==
  {i \in 1..Len(ns) : OccursIn(Core(term), ns[i].title) \/
                       OccursIn(Core(term), ns[i].content)}

\* C14: a search returns exactly the notes whose title or content contains
\* the trimmed term, case ignored, in the order they have in the collection;
\* for an empty or all-blank term it returns the whole collection; and the
\* collection is as it was (both searchNotes and performSearch).
C14_SearchExact ==
  searched.by # "none" =>
    LET r    == searched.result
        over == searched.over
        hits == Hits(over, searched.term)
    IN  /\ notes = over
        /\ Core(searched.term) = <<>> => r = over
        /\ Len(r) = Cardinality(hits)
        /\ \A j \in 1..Len(r) :
             \E i \in hits : /\ r[j] = over[i]
                             /\ Cardinality({h \in hits : h < i}) = j - 1

\* C14 witness: a term with a blank before an upper-case letter picked the
\* second of two notes, matching lower-case text, and left the first out.
C14_Witness ==
  /\ searched.by = "searchNotes"
  /\ searched.term = <<" ", "B">>
  /\ Len(notes) = 2
  /\ searched.result = <<notes[2]>>
  /\ notes[2].title = <<"b", "a">>

\* C16: once stopAutoSave has returned no interval timer runs and no tick
\* starts a save until startAutoSave is called again; stopping leaves the
\* saves in flight as they are; and however often startAutoSave was called,
\* exactly one interval timer runs after it, the one this.autoSaveInterval
\* holds.
C16_StopAndRestart ==
  [][/\ autoSaveInterval' = 0 => intervals' = {}
     /\ autoSaveInterval' # 0 => intervals' = {autoSaveInterval'}
     /\ nstarts' # nstarts => Cardinality(intervals') = 1
     /\ (lastTick' # lastTick /\ lastTick'.wrote) => autoSaveInterval # 0
     /\ (autoSaveInterval # 0 /\ autoSaveInterval' = 0) =>
          (inflight' = inflight /\ timers' = timers)]_vars

\* C16 witness: startAutoSave was called a second time and stopAutoSave after
\* it; no interval timer is left, while a save is still in flight and the
\* pending data a tick would have saved is still set.
C16_Witness ==
  /\ nstarts = 2
  /\ autoSaveInterval = 0
  /\ intervals = {}
  /\ inflight # {}
  /\ pendingData # NoData

\* C17: an interval tick that finds pendingData null starts no write and
\* changes no store; one that finds it set calls saveData with that object,
\* which is the one the last updateNote gave to setPendingData, and leaves it
\* set.  (After clearPendingData the slot is null, so this is the first case.)
C17_TickSavesPending ==
  [][lastTick' # lastTick =>
       IF pendingData = NoData
       THEN /\ ~lastTick'.wrote
            /\ UNCHANGED <<inflight, localStorage, lastWrite, ncalls, execSeq,
                           dataFile, backupFile, pendingData>>
       ELSE /\ lastTick'.wrote
            /\ pendingData.seq = saveTimeout
            /\ lastWrite'.doc = DocOf(pendingData, notes)
            /\ execSeq' = ncalls + 1
            /\ pendingData' = pendingData]_vars

\* C17 witness: updateNote had set the pending data, clearPendingData emptied
\* the slot, and the tick that ran after it wrote nothing: the debounce timer
\* of that update is still armed and no save was ever started.
C17_Witness ==
  /\ lastTick = [ran |-> TRUE, wrote |-> FALSE, seq |-> 0]
  /\ pendingData = NoData
  /\ saveTimeout # 0
  /\ timers # {}
  /\ lastWrite = NoWrite

C21_MirrorEqualsPrimary ==
  [][\A f \in inflight :
       (/\ inflight = {f}
        /\ inflight' = {}
        /\ execSeq = f.data.seq
        /\ lastSave'.primary = "ok"
        /\ lastSave'.setItemOk)
       => (/\ dataFile' = FileOf(JSONstringify(f.sent))
           /\ localStorage' = dataFile')]_vars

\* C22: at most one debounce timer is armed, and it is the one the latest
\* debouncedSave call set; a debouncedSave call leaves exactly its own timer
\* armed, whatever was armed before; and when the timer fires nothing stays
\* armed and the save it starts is for the data of that latest call.
C22_OneDebounceTimer ==
  [][/\ Cardinality(timers') <= 1
     /\ \A t \in timers' : t.seq = saveTimeout'
     /\ saveTimeout' # saveTimeout =>
          timers' = {Data(nextNoteId, saveTimeout')}
     /\ (timers' # timers /\ saveTimeout' = saveTimeout) =>
          /\ timers' = {}
          /\ execSeq' = saveTimeout
          /\ \A t \in timers : lastWrite'.doc = DocOf(t, notes)]_vars

\* C22 witness: two or more updateNote calls came under one debounce window,
\* then the timer fired: one debounce save was started, for the last call, and
\* no timer is armed.
C22_Witness ==
  /\ burst.done
  /\ burst.n >= 2
  /\ burst.debWrites = 1
  /\ timers = {}
  /\ execSeq = saveTimeout
  /\ saveTimeout >= 2

\* C23: while a debounce timer is armed, pendingData is the object the timer
\* will save, so the interval callback and the timer callback would hand the
\* same document to saveData.
C23_PendingIsDebounced ==
  \A t \in timers :
    /\ pendingData = t
    /\ DocOf(pendingData, notes) = DocOf(t, notes)

\* C23 witness: with the timer of an updateNote still armed the auto-save
\* interval ticked and wrote the document the timer is going to write.
C23_Witness ==
  /\ timers # {}
  /\ pendingData \in timers
  /\ lastTick.wrote
  /\ execSeq = lastTick.seq
  /\ lastWrite.doc = DocOf(pendingData, notes)

\* C25: when the Primary write of the save that createNewNote, deleteNote or
\* saveNoteManually awaits comes back with {success: false} or is rejected,
\* the message shown once the save is over is the failure message, not the
\* confirmation of the operation.
C25_FailureIsNotified ==
  [][\A f \in inflight :
       (/\ inflight' = inflight \ {f}
        /\ f.origin \in {"create", "delete", "manual"}
        /\ lastSave'.primary \in {"failure", "throw"})
       => shown' = "saveFailed"]_vars

(***************************************************************************)
(* Properties of the migration at start-up (SpecMigrate)                   *)
(***************************************************************************)

\* C27: when initialize is over every note it loaded has createdAt and
\* updatedAt: a record that had neither has the time of the load in both, one
\* that had createdAt only has updatedAt equal to it, and one that had both
\* has them as they were.
C27_MigrationFillsStamps ==
  [][(pc = "boot" /\ pc' # "boot") =>
       \A i \in 1..Len(stamps') :
         LET was == storedStamps
             is  == stamps'[i]
         IN  /\ is.createdAt # 0 /\ is.updatedAt # 0
             /\ (was.createdAt = 0 /\ was.updatedAt = 0) => is = Stamp(clock, clock)
             /\ (was.createdAt # 0 /\ was.updatedAt = 0) =>
                  is = Stamp(was.createdAt, was.createdAt)
             /\ (was.createdAt # 0 /\ was.updatedAt # 0) => is = was]_vars

\* C27 witness: the stored record had createdAt 1 and no updatedAt, it was
\* loaded at a later time, and the note has updatedAt 1 (no update has
\* touched it since: that would have stamped it with the later time).
C27_Witness ==
  /\ storedStamps = Stamp(1, 0)
  /\ pc = "ready"
  /\ clock > 2
  /\ Len(stamps) = 1
  /\ stamps[1] = Stamp(1, 1)
  /\ boot.recovered

(***************************************************************************)
(* Restart round trip (SpecSvc)                                            *)
(***************************************************************************)

\* C28: when every save so far has completed with success on both backends,
\* none is pending and no debounce timer is armed, a restart followed by
\* initialize yields the notes, in the same order, and the nextId that are in
\* memory now.
C28_RestartRoundTrip ==
  (/\ pc = "ready"
   /\ isElectronAvailable
   /\ lastSave.done /\ lastSave.allOk
   /\ inflight = {}
   /\ timers = {})
  => LET again == initialize(TRUE, dataDir, dataFile, backupFile, localStorage,
                             TRUE, TRUE)
     IN  /\ again.notes = notes
         /\ again.nextId = nextNoteId

(***************************************************************************)
(* Memory under failing backends (SpecSvc)                                 *)
(***************************************************************************)

\* the result createNewNote / saveNoteManually / deleteNote return for a note
\* they found
NormalResult(origin) ==
  CASE origin = "create" -> [op |-> "create", val |-> "note"]
    [] origin = "manual" -> [op |-> "manual", val |-> "true"]
    [] origin = "delete" -> [op |-> "delete", val |-> "true"]

\* the change the operation makes to this.notes and this.nextNoteId
ChangeApplied(origin) ==
  CASE origin = "create" -> /\ Len(notes') = Len(notes) + 1
                            /\ notes'[Len(notes')].id = nextNoteId
                            /\ SubSeq(notes', 1, Len(notes)) = notes
                            /\ nextNoteId' = nextNoteId + 1
    [] origin = "manual" -> /\ Len(notes') = Len(notes)
                            /\ \E k \in 1..Len(notes), upd \in Updates :
                                 notes' = [notes EXCEPT ![k] = Assign(notes[k], upd)]
                            /\ nextNoteId' = nextNoteId
    [] origin = "delete" -> /\ Len(notes') = Len(notes) - 1
                            /\ \E k \in 1..Len(notes) : notes' = Splice(notes, k)
                            /\ nextNoteId' = nextNoteId

\* C29: with both backends failing, createNewNote, updateNote,
\* saveNoteManually and deleteNote still make their change to the notes in
\* memory and return what they return otherwise; the step in which a save
\* ends in failure leaves this.notes and this.nextNoteId as they are.
C29_FailedSaveKeepsMemory ==
  [][/\ \A f \in inflight' \ inflight :
          f.origin \in {"create", "manual", "delete"} => ChangeApplied(f.origin)
     /\ \A f \in inflight :
          (/\ inflight' = inflight \ {f}
           /\ lastSave'.primary \in {"failure", "throw"}
           /\ ~lastSave'.setItemOk)
          => /\ notes' = notes
             /\ nextNoteId' = nextNoteId
             /\ f.origin \in {"create", "manual", "delete"}
                  => ret' = NormalResult(f.origin)
     /\ (/\ ~isElectronAvailable
         /\ pc = "ready"
         /\ ncalls' # ncalls /\ execSeq' = ncalls' /\ lastTick' = lastTick
         /\ ~lastSave'.setItemOk)
        => /\ ret'.op \in {"create", "manual", "delete"}
           /\ ret' = NormalResult(ret'.op)
           /\ ChangeApplied(ret'.op)
     /\ pendingData' # pendingData
        => /\ ret' = [op |-> "update", val |-> "true"]
           /\ \E k \in 1..Len(notes), upd \in Updates :
                notes' = [notes EXCEPT ![k] = Assign(notes[k], upd)]
           /\ nextNoteId' = nextNoteId]_vars

\* C29 witness: on a fresh install createNewNote has returned its note after
\* a save that reached neither backend; the note is in memory, numbered, and
\* no store holds anything.
C29_Witness ==
  /\ isElectronAvailable
  /\ pc = "ready"
  /\ inflight = {}
  /\ lastSave.done /\ lastSave.usable
  /\ lastSave.primary \in {"failure", "throw"}
  /\ ~lastSave.setItemOk
  /\ ret = [op |-> "create", val |-> "note"]
  /\ Len(notes) = 1 /\ notes[1].id = 1
  /\ nextNoteId = 2
  /\ ~dataFile.exists /\ ~localStorage.exists

(***************************************************************************)
(* Durability of the file store (SpecDurable)                              *)
(***************************************************************************)

\* C30: once a writeNotesData call has completed, every later readNotesData
\* call (here: one whose own file reads meet no I/O error), whatever writes,
\* failed writes and crashes inside writes came in between, returns a
\* document that was passed to writeNotesData, and never the empty document.
C30_ReadReturnsWritten ==
  (rresult.called /\ rresult.readDataOk /\ rresult.readBackupOk)
    => /\ rresult.val \in written
       /\ rresult.val # EmptyDoc

(***************************************************************************)
(* Deleted notes and later saves (SpecSessions)                            *)
(***************************************************************************)

\* the deleteNote call has returned true: the save it awaited is over
HasReturned(d) == \A f \in inflight : f.data.seq # d.seq

\* C31: once deleteNote(id) has returned true, no save that is started
\* afterwards in this session (by a later call, by a debounce timer armed
\* before the delete, by the auto-save tick) hands a backend a document with a
\* note of that id.
C31_DeletedStaysDeleted ==
  [][(pc = "ready" /\ execSeq' # execSeq)
       => \A d \in deleted :
            HasReturned(d) => d.id \notin IdsOf(lastWrite'.doc.notes)]_vars

(***************************************************************************)
(* Overlapping saves (SpecSvc)                                             *)
(***************************************************************************)

\* C32: whenever no electronAPI.storage.write call is pending any more and
\* every save so far has succeeded, saves that overlapped included,
\* notes.json holds the complete serialization of the document that the call
\* made last was given.
C32_LastIssuedWins ==
  (/\ isElectronAvailable
   /\ inflight = {}
   /\ lastSave.done /\ lastSave.allOk)
  => dataFile = FileOf(JSONstringify(lastWrite.issued))

(***************************************************************************)
(* The auto-save tick and what is already stored (SpecCoord)               *)
(***************************************************************************)

\* every change made to the collection is covered by a save that is over:
\* no updateNote is waiting for its save, no write is pending, and the
\* backends in use hold the serialization of this.notes and this.nextNoteId
Persisted ==
  LET stored == FileOf(JSONstringify(MkDoc(notes, nextNoteId)))
  IN  /\ ~unsaved
      /\ inflight = {}
      /\ localStorage = stored
      /\ isElectronAvailable => dataFile = stored

\* C33: an auto-save tick starts a backend write only when some change of the
\* collection is not covered by a completed save yet; with the latest state
\* stored, ticks write nothing until the next updateNote.
C33_TickWritesOnlyUnsaved ==
  [][(lastTick' # lastTick /\ lastTick'.wrote) => ~Persisted]_vars

(***************************************************************************)
(* Without the file store (SpecBrowser)                                    *)
(***************************************************************************)

\* C34: isElectronAvailable never changes; while it is false no
\* electronAPI.storage call is made and no file of the main process changes:
\* loadData returns what loadFromLocalStorage returns, every save goes to
\* localStorage alone, and createBackup does nothing.
C34_SecondaryOnly ==
  [][/\ isElectronAvailable' = isElectronAvailable
     /\ ~isElectronAvailable =>
          /\ inflight' = {}
          /\ UNCHANGED <<dataDir, dataFile, backupFile, snapshots, backupMtime,
                         snapLog, wpc, nwrites>>
          /\ (pc = "boot" /\ pc' # "boot") =>
               /\ ~boot'.threw
               /\ boot'.val = loadFromLocalStorage(localStorage, boot'.getItemOk).val
          /\ lastWrite' # lastWrite =>
               /\ lastWrite'.backend = "secondary"
               /\ localStorage' \in {localStorage,
                                      FileOf(JSONstringify(lastWrite'.doc))}
          /\ backupCall'.done => backupCall'.result = "skipped"]_vars

\* C34 witness: without Electron, beside a readable notes.json that holds
\* another document, the notes were loaded from localStorage, a note was
\* created and saved to localStorage, the backup callback has run, and
\* notes.json is as it was.
C34_Witness ==
  /\ ~isElectronAvailable
  /\ pc = "ready"
  /\ Readable(boot.data) /\ Readable(boot.ls)
  /\ boot.val = JSONparse(boot.ls.text)
  /\ boot.val # JSONparse(boot.data.text)
  /\ created # <<>>
  /\ lastSave.done /\ lastSave.setItemOk
  /\ localStorage = FileOf(JSONstringify(MkDoc(notes, nextNoteId)))
  /\ localStorage # boot.ls
  /\ dataFile = boot.data
  /\ backupCall.done /\ backupCall.result = "skipped"

(***************************************************************************)
(* Liveness of the saves (SpecLive)                                        *)
(***************************************************************************)

\* C26: with the auto-save interval running and ticking, every updateNote
\* that found its note is eventually followed by a saveData invocation, whose
\* document carries the notes as the update (and the updates after it) left
\* them, also when updateNote calls keep re-arming the debounce timer so that
\* it never fires.
C26_UpdatesGetWritten ==
  unsaved ~> (~unsaved /\ lastWrite.doc.notes = notes)

\* C26 witness: more updateNote calls than there are call numbers came under
\* one debounce window, whose timer is still armed, and a tick of the
\* interval has handed the notes as they are now to the backend.
C26_Witness ==
  /\ recycle
  /\ burst.active
  /\ burst.n > MaxCalls
  /\ timers # {}
  /\ ~unsaved
  /\ lastTick.wrote
  /\ execSeq = lastTick.seq
  /\ lastWrite.doc.notes = notes

====
